---- MODULE Spec2Model ----
\* osmium::memory::Buffer (buffer.hpp): an append-only byte arena holding a
\* sequence of length-prefixed, aligned Items, with the watermarks m_written
\* and m_committed (specification Spec), and osmium::io::detail::InputFormat
\* (input_format.hpp): the queue of Buffer futures between a framing thread
\* and the consumer (specification InputFormatSpec), and the encoders
\* osmium::io::detail::PBFOutputFormat (pbf_output_format.hpp) and
\* osmium::io::detail::XMLOutputFormat (xml_output_format.hpp), which turn the
\* Buffers written to a file into the strings of its output queue
\* (specification OutputFormatSpec; XMLOutputSpec adds the thread pool
\* finishing the tasks of an XMLOutputFormat).  Smaller specifications cover
\* xml_string (XmlStringSpec), InputFormat::header() (HeaderSpec),
\* FlexReader::read() (FlexReaderSpec) and the walk over the members of a
\* RelationMemberList with RelationMember::next() (MemberListSpec).
EXTENDS Integers, Sequences, FiniteSets, TLC

\* ---------------------------------------------------------------- bounds
\* Most bytes (in units of align_bytes) written to a Buffer of the model.
MaxWords == 3
\* Most data blobs the framing thread of an InputFormat reads from its file.
MaxBlobs == 21
\* Most of those blobs that are decoded by tasks of the thread pool.
MaxTasks == 1
\* Most objects in the Buffers written to an OutputFormat, and most Buffers.
MaxObjects == 3
MaxBuffers == 2
\* The longest string xml_string is called on, in characters.
MaxChars == 2
\* Most calls of InputFormat::header().
MaxHeaderCalls == 3
\* Most area Buffers produced during one FlexReader::read(), and most read()
\* calls.
MaxAreaBuffers == 2
MaxReads == 1
\* Most members of a RelationMemberList.
MaxMembers == 2
\* Bytes a string adds to the size of a StringTable.
StringBytes == 2
\* max_entities_per_block (8000 in pbf_output_format.hpp) and
\* max_uncompressed_blob_size (32 MiB in pbf.hpp), scaled to the objects of
\* the model.
max_entities_per_block == 2
max_uncompressed_blob_size == 40

\* ------------------------------------------------------- item layout
\* osmium::memory::align_bytes (item.hpp).
align_bytes == 8

\* osmium::memory::padded_length: (n + A - 1) & ~(A - 1).
padded_length(n) == ((n + align_bytes - 1) \div align_bytes) * align_bytes

MaxCapacity == MaxWords * align_bytes

\* item_type enumerators used by the model (item_type.hpp).
type_node      == 1
type_way       == 2
type_tag_list  == 17

\* detail::type_is_compatible<osmium::OSMEntity>: node, way, relation, area,
\* changeset (0x01..0x05).
type_is_compatible(t) == t \in 1..5

\* Memory is a sequence of cells of align_bytes bytes each.  A cell is the
\* triple the Item header overlays on those bytes: <<uint32 m_size,
\* uint16 m_type, uint16 m_removed:1 + padding>>.  Offsets and sizes are in
\* bytes; the cell at byte offset off is mem[off \div align_bytes + 1].
ZeroCell == <<0, 0, 0>>
Zeros(n) == [k \in 1..(n \div align_bytes) |-> ZeroCell]
CellAt(mem, off) == mem[(off \div align_bytes) + 1]
Size(mem) == Len(mem) * align_bytes

\* The cells of an Item as add_item copies them: the header, then the payload
\* and the padding up to padded_size().
ItemImage(size, type, removed, fill) ==
    << <<size, type, IF removed THEN 1 ELSE 0>> >>
      \o [k \in 1..((padded_length(size) \div align_bytes) - 1) |-> <<fill, 0, 0>>]

\* The items callers hand to add_item / push_back and find in external memory.
NodeItem       == ItemImage(8, type_node, FALSE, 0)
RemovedWayItem == ItemImage(12, type_way, TRUE, 7)
TagListItem    == ItemImage(8, type_tag_list, FALSE, 0)
ItemPool == {NodeItem, RemovedWayItem, TagListItem}

\* Item::size(), Item::type(), Item::removed(), Item::padded_size() of the item
\* whose header starts at byte offset off of mem.
item_size(mem, off)    == CellAt(mem, off)[1]
item_type(mem, off)    == CellAt(mem, off)[2]
item_removed(mem, off) == (CellAt(mem, off)[3] % 2) = 1
padded_size(mem, off)  == padded_length(item_size(mem, off))

\* The cells holding the bytes [from, from + n) of mem (from is aligned).
Bytes(mem, from, n) ==
    SubSeq(mem, (from \div align_bytes) + 1, padded_length(from + n) \div align_bytes)

\* std::copy_n / std::memmove of n bytes from src[soff..] to mem[doff..]
\* (all aligned).
CopyInto(mem, doff, src, soff, n) ==
    [i \in 1..Len(mem) |->
        IF doff < i * align_bytes /\ i * align_bytes <= doff + n
        THEN src[i + ((soff - doff) \div align_bytes)] ELSE mem[i]]

\* True when [0, end) of mem is a sequence of items: every header lies inside,
\* every size is at least the header size, and the walk ends exactly at end.
RECURSIVE WalkOK(_, _, _)
WalkOK(mem, pos, end) ==
    IF pos = end THEN TRUE
    ELSE /\ pos + align_bytes <= end
         /\ item_size(mem, pos) >= align_bytes
         /\ pos + padded_size(mem, pos) <= end
         /\ WalkOK(mem, pos + padded_size(mem, pos), end)
WellFormed(mem, end) == end <= Size(mem) /\ WalkOK(mem, 0, end)

\* All items (of any type) in [pos, end), each as its cells.
RECURSIVE ItemsFrom(_, _, _)
ItemsFrom(mem, pos, end) ==
    IF pos >= end THEN <<>>
    ELSE <<Bytes(mem, pos, padded_size(mem, pos))>>
           \o ItemsFrom(mem, pos + padded_size(mem, pos), end)

\* ------------------------------------------------------------- Buffer
\* A Buffer object.  m_data is "nullptr", "m_memory" (m_memory.data()) or
\* "external" (caller-owned memory, kept in extmem).  m_full tells whether a
\* full-callback is registered.  What a registered callback does when it is
\* invoked is up to its author: it clears the buffer or grows it to twice its
\* capacity.
FullActs == {"clear", "grow"}

\* Buffer(): the invalid buffer.
DefaultBuffer ==
    [m_memory |-> <<>>, m_data |-> "nullptr", extmem |-> <<>>,
     m_capacity |-> 0, m_written |-> 0, m_committed |-> 0,
     m_auto_grow |-> FALSE, m_full |-> FALSE]

\* The bytes m_data points to.
Data(b) == IF b.m_data = "m_memory" THEN b.m_memory ELSE b.extmem

WithData(b, mem) ==
    IF b.m_data = "m_memory" THEN [b EXCEPT !.m_memory = mem]
    ELSE [b EXCEPT !.extmem = mem]

\* operator bool testing the capacity instead of the data pointer.
Valid_capacity(b) == b.m_capacity # 0

\* explicit operator bool.
Valid(b) == b.m_data # "nullptr"

\* is_aligned().
is_aligned(b) ==
    (b.m_written % align_bytes = 0) /\ (b.m_committed % align_bytes = 0)

\* The result of a call: the buffer afterwards, the value returned and the
\* exception thrown ("none" when the call returned).
Outcome(b, r, e) == [buf |-> b, ret |-> r, err |-> e]

\* Buffer(unsigned char* data, size_t size).
CtorExternal2(mem, size) ==
    IF size % align_bytes # 0 THEN Outcome(DefaultBuffer, 0, "invalid_argument")
    ELSE Outcome([DefaultBuffer EXCEPT !.m_data = "external", !.extmem = mem,
                    !.m_capacity = size, !.m_written = size,
                    !.m_committed = size], 0, "none")

\* Buffer(unsigned char* data, size_t capacity, size_t committed).
CtorExternal3(mem, capacity, committed) ==
    IF capacity % align_bytes # 0 \/ committed % align_bytes # 0
    THEN Outcome(DefaultBuffer, 0, "invalid_argument")
    ELSE Outcome([DefaultBuffer EXCEPT !.m_data = "external", !.extmem = mem,
                    !.m_capacity = capacity, !.m_written = committed,
                    !.m_committed = committed], 0, "none")

\* Buffer(size_t capacity, auto_grow).  m_memory(capacity) is zero-filled;
\* data() of an empty vector may or may not be null (nulldata).
CtorInternal(capacity, auto_grow, nulldata) ==
    IF capacity % align_bytes # 0 THEN Outcome(DefaultBuffer, 0, "invalid_argument")
    ELSE Outcome([DefaultBuffer EXCEPT
                    !.m_memory = Zeros(capacity),
                    !.m_data = IF capacity = 0 /\ nulldata THEN "nullptr"
                               ELSE "m_memory",
                    !.m_capacity = capacity, !.m_auto_grow = auto_grow],
                 0, "none")

\* grow without the check of the new size's alignment.
grow_unaligned(b, size) ==
    IF b.m_memory = <<>> THEN Outcome(b, 0, "logic_error")
    ELSE IF b.m_capacity < size
    THEN Outcome([b EXCEPT
                    !.m_memory = b.m_memory \o Zeros(padded_length(size) - Size(b.m_memory)),
                    !.m_data = "m_memory",
                    !.m_capacity = size], 0, "none")
    ELSE Outcome(b, 0, "none")

\* grow without the check for internally managed memory.
grow_any_memory(b, size) ==
    IF b.m_capacity < size
    THEN IF size % align_bytes # 0 THEN Outcome(b, 0, "invalid_argument")
         ELSE Outcome([b EXCEPT
                         !.m_memory = b.m_memory \o Zeros(size - Size(b.m_memory)),
                         !.m_data = "m_memory",
                         !.m_capacity = size], 0, "none")
    ELSE Outcome(b, 0, "none")

\* grow that drops what is written and not committed.
grow_discards_written(b, size) ==
    IF b.m_memory = <<>> THEN Outcome(b, 0, "logic_error")
    ELSE IF b.m_capacity < size
    THEN IF size % align_bytes # 0 THEN Outcome(b, 0, "invalid_argument")
         ELSE Outcome([b EXCEPT
                         !.m_memory = b.m_memory \o Zeros(size - Size(b.m_memory)),
                         !.m_data = "m_memory",
                         !.m_capacity = size,
                         !.m_written = b.m_committed], 0, "none")
    ELSE Outcome(b, 0, "none")

\* grow(size).
grow(b, size) ==
    IF b.m_memory = <<>> THEN Outcome(b, 0, "logic_error")
    ELSE IF b.m_capacity < size
    THEN IF size % align_bytes # 0 THEN Outcome(b, 0, "invalid_argument")
         ELSE Outcome([b EXCEPT
                         !.m_memory = b.m_memory \o Zeros(size - Size(b.m_memory)),
                         !.m_data = "m_memory",
                         !.m_capacity = size], 0, "none")
    ELSE Outcome(b, 0, "none")

\* commit returning the new committed mark instead of the previous one.
commit_returns_new(b) ==
    Outcome([b EXCEPT !.m_committed = b.m_written], b.m_written, "none")

\* commit().
commit(b) == Outcome([b EXCEPT !.m_committed = b.m_written], b.m_committed, "none")

\* rollback with the assignment the wrong way round.
rollback_swapped(b) == Outcome([b EXCEPT !.m_committed = b.m_written], 0, "none")

\* rollback().
rollback(b) == Outcome([b EXCEPT !.m_written = b.m_committed], 0, "none")

\* clear returning the written mark instead of the committed one.
clear_returns_written(b) ==
    Outcome([b EXCEPT !.m_written = 0, !.m_committed = 0], b.m_written, "none")

\* clear().
clear(b) ==
    Outcome([b EXCEPT !.m_written = 0, !.m_committed = 0], b.m_committed, "none")

\* m_full(*this), for a callback that does act.
CallFull(b, act) ==
    IF act = "clear" THEN clear(b) ELSE grow(b, 2 * b.m_capacity)

\* The doubling loop of reserve_space: the first capacity * 2^k (k >= 1) that
\* holds need bytes.
RECURSIVE DoubleUntil(_, _)
DoubleUntil(new_capacity, need) ==
    IF need > new_capacity THEN DoubleUntil(new_capacity * 2, need)
    ELSE new_capacity
\* The capacity doubled once, without the loop.
NewCapacity_once(capacity, need) == capacity * 2

NewCapacity(capacity, need) == DoubleUntil(capacity * 2, need)

\* ReserveTail returning the pointer after advancing m_written.
ReserveTail_returns_end(b, size) ==
    IF b.m_written + size > b.m_capacity
    THEN IF b.m_memory # <<>> /\ b.m_auto_grow
         THEN LET g == grow(b, NewCapacity(b.m_capacity, b.m_written + size)) IN
              IF g.err # "none" THEN g
              ELSE Outcome([g.buf EXCEPT !.m_written = @ + size],
                           g.buf.m_written + size, "none")
         ELSE Outcome(b, 0, "buffer_is_full")
    ELSE Outcome([b EXCEPT !.m_written = @ + size], b.m_written + size, "none")

\* ReserveTail with >= for >: a reservation that fills the buffer exactly is
\* refused.
ReserveTail_refuses_exact(b, size) ==
    IF b.m_written + size >= b.m_capacity
    THEN IF b.m_memory # <<>> /\ b.m_auto_grow
         THEN LET g == grow(b, NewCapacity(b.m_capacity, b.m_written + size)) IN
              IF g.err # "none" THEN g
              ELSE Outcome([g.buf EXCEPT !.m_written = @ + size],
                           g.buf.m_written, "none")
         ELSE Outcome(b, 0, "buffer_is_full")
    ELSE Outcome([b EXCEPT !.m_written = @ + size], b.m_written, "none")

\* ReserveTail that never grows the buffer.
ReserveTail_never_grows(b, size) ==
    IF b.m_written + size > b.m_capacity
    THEN Outcome(b, 0, "buffer_is_full")
    ELSE Outcome([b EXCEPT !.m_written = @ + size], b.m_written, "none")

\* Second half of reserve_space, after the full-callback: grow or throw, then
\* hand out [m_written, m_written + size).
ReserveTail(b, size) ==
    IF b.m_written + size > b.m_capacity
    THEN IF b.m_memory # <<>> /\ b.m_auto_grow
         THEN LET g == grow(b, NewCapacity(b.m_capacity, b.m_written + size)) IN
              IF g.err # "none" THEN g
              ELSE Outcome([g.buf EXCEPT !.m_written = @ + size],
                           g.buf.m_written, "none")
         ELSE Outcome(b, 0, "buffer_is_full")
    ELSE Outcome([b EXCEPT !.m_written = @ + size], b.m_written, "none")

\* The full-callback invoked by every reserve_space, full or not.
FullFires_always(b, size) == b.m_full

\* TRUE when reserve_space(size) invokes the full-callback.
FullFires(b, size) == b.m_written + size > b.m_capacity /\ b.m_full

\* What an invoked callback may do; one choice when none is invoked.
ActsFor(b, size) == IF FullFires(b, size) THEN FullActs ELSE {"clear"}

\* What the full-callback invoked by reserve_space(size) did, "none" when it
\* was not invoked.
Fired(b, size, act) == IF FullFires(b, size) THEN act ELSE "none"

\* reserve_space(size).  ret is the offset of the returned pointer in the data.
reserve_space(b, size, act) ==
    IF FullFires(b, size)
    THEN LET f == CallFull(b, act) IN
         IF f.err # "none" THEN Outcome(f.buf, 0, f.err)
         ELSE ReserveTail(f.buf, size)
    ELSE ReserveTail(b, size)

\* add_item(item): item is the item's bytes (padded_size() of them).
add_item(b, item, act) ==
    LET r == reserve_space(b, Size(item), act) IN
    IF r.err # "none" THEN r
    ELSE Outcome(WithData(r.buf, CopyInto(Data(r.buf), r.ret, item, 0, Size(item))),
                 r.ret, "none")

\* add_buffer copying everything written to the source, committed or not.
add_buffer_written(b, src, act) ==
    LET r == reserve_space(b, src.m_written, act) IN
    IF r.err # "none" THEN r
    ELSE Outcome(WithData(r.buf,
                   CopyInto(Data(r.buf), r.ret, Data(src), 0, src.m_written)),
                 0, "none")

\* add_buffer(buffer).
add_buffer(b, src, act) ==
    LET r == reserve_space(b, src.m_committed, act) IN
    IF r.err # "none" THEN r
    ELSE Outcome(WithData(r.buf,
                   CopyInto(Data(r.buf), r.ret, Data(src), 0, src.m_committed)),
                 0, "none")

\* push_back(item): add_item, then commit.
push_back(b, item, act) ==
    LET r == add_item(b, item, act) IN
    IF r.err # "none" THEN r ELSE Outcome(commit(r.buf).buf, 0, "none")

\* ItemIterator<OSMEntity>::advance_to_next_item_of_right_type: skip items whose
\* type is not an OSMEntity type.
RECURSIVE advance_to_next_item_of_right_type(_, _, _)
advance_to_next_item_of_right_type(mem, pos, end) ==
    IF pos # end /\ ~type_is_compatible(item_type(mem, pos))
    THEN advance_to_next_item_of_right_type(mem, pos + padded_size(mem, pos), end)
    ELSE pos

\* ItemIterator::advance_once: one item further, whatever its type.
advance_once(mem, pos) == pos + padded_size(mem, pos)

\* begin(): iterator(m_data, m_data + m_committed).
begin(b) == advance_to_next_item_of_right_type(Data(b), 0, b.m_committed)

\* std::next(it): operator++.
IterNext(mem, pos, end) ==
    advance_to_next_item_of_right_type(mem, pos + padded_size(mem, pos), end)

\* TRUE when the item at it_read is kept by purge_removed.
Survives(mem, it_read) == ~item_removed(mem, it_read)

\* The loop of purge_removed.  moves is the list of moving_in_buffer(old, new)
\* calls made so far; each entry also records whether the item was still
\* intact at old when the callback ran.
RECURSIVE PurgeLoop(_, _, _, _, _)
PurgeLoop(mem, it_read, it_write, end, moves) ==
    IF it_read = end THEN [mem |-> mem, it_write |-> it_write, moves |-> moves]
    ELSE LET next == IterNext(mem, it_read, end) IN
         IF Survives(mem, it_read)
         THEN IF it_read # it_write
              THEN LET n  == padded_size(mem, it_read)
                       m2 == CopyInto(mem, it_write, mem, it_read, n)
                   IN PurgeLoop(m2, next, advance_once(m2, it_write), end,
                                Append(moves, [old |-> it_read, new |-> it_write,
                                               item |-> Bytes(mem, it_read, n)]))
              ELSE PurgeLoop(mem, next, advance_once(mem, it_write), end, moves)
         ELSE PurgeLoop(mem, next, it_write, end, moves)

\* purge_removed(callback).  ret carries the callback invocations.
purge_removed(b) ==
    IF begin(b) = b.m_committed THEN Outcome(b, <<>>, "none")
    ELSE LET p == PurgeLoop(Data(b), begin(b), begin(b), b.m_committed, <<>>) IN
         Outcome([WithData(b, p.mem) EXCEPT !.m_written = p.it_write,
                                             !.m_committed = p.it_write],
                 p.moves, "none")

\* set_full_callback(full).
set_full_callback(b) == Outcome([b EXCEPT !.m_full = TRUE], 0, "none")

\* Buffer(Buffer&&) = default and operator=(Buffer&&) = default: the object
\* moved to takes every member of the source.
MovedTo(b) == b

\* The source after the defaulted move: the vector m_memory has been moved
\* out and is empty, the std::function m_full is left in a valid state that
\* is not specified (full), the pointer m_data and the three sizes are
\* copied and stay as they were. A pointer into m_memory now points into
\* the vector of the object moved to.
MovedFrom(b, full) ==
    [b EXCEPT !.m_memory = <<>>, !.extmem = <<>>,
              !.m_data = IF @ = "m_memory" THEN "moved_m_memory" ELSE @,
              !.m_full = full]

\* ------------------------------------------------ objects to be encoded
\* The OSM objects of the Buffers handed to an OutputFormat
\* (osmium::Node, osmium::Way, osmium::Relation). Locations are the
\* Location's integer coordinates, in units of 1/coordinate_precision degrees;
\* user "" with uid 0 is the anonymous user.
Peak ==
    [type |-> "node", id |-> 5, version |-> 1, visible |-> TRUE,
     timestamp |-> 7, changeset |-> 3, uid |-> 2, user |-> "alice",
     tags |-> << <<"natural", "peak">>, <<"name", "">> >>, x |-> -3, y |-> 4,
     nodes |-> <<>>, members |-> <<>>]

Cairn ==
    [type |-> "node", id |-> 2, version |-> 2, visible |-> TRUE,
     timestamp |-> 4, changeset |-> 1, uid |-> 0, user |-> "",
     tags |-> <<>>, x |-> 6, y |-> -1,
     nodes |-> <<>>, members |-> <<>>]

Road ==
    [type |-> "way", id |-> 9, version |-> 1, visible |-> FALSE,
     timestamp |-> 2, changeset |-> 3, uid |-> 2, user |-> "alice",
     tags |-> << <<"highway", "peak">> >>, x |-> 0, y |-> 0,
     nodes |-> <<5, 2>>, members |-> <<>>]

Member(type, ref, role) == [type |-> type, ref |-> ref, role |-> role]

Route ==
    [type |-> "relation", id |-> 1, version |-> 3, visible |-> TRUE,
     timestamp |-> 9, changeset |-> 4, uid |-> 2, user |-> "alice",
     tags |-> <<>>, x |-> 0, y |-> 0, nodes |-> <<>>,
     members |-> <<Member("way", 9, "main"), Member("node", 5, "main"),
                   Member("node", 2, "main"), Member("way", 9, "main"),
                   Member("node", 5, "main"), Member("node", 2, "main")>>]

Objects == {Peak, Cairn, Road, Route}

\* The Buffers of at most n objects that can be handed to write_buffer: the
\* objects they hold, in order.
Buffers(n) == UNION {[1..k -> Objects] : k \in 0..n}

\* ------------------------------------------------------- PBF encoding
\* pbf.hpp: lonlat_resolution; location.hpp: coordinate_precision.
lonlat_resolution == 1000000000
coordinate_precision == 10000000
location_granularity == 100

\* std::round of n / d (d > 0): halves away from zero.
Round(n, d) ==
    IF n >= 0 THEN (2 * n + d) \div (2 * d) ELSE -((2 * (-n) + d) \div (2 * d))

\* lonlat2int(lonlat) for the double c / coordinate_precision:
\* round(lonlat * lonlat_resolution / location_granularity).
lonlat2int(c) ==
    Round(c * (lonlat_resolution \div location_granularity), coordinate_precision)

\* osmium::util::DeltaEncode<T>: update(value) returns value - m_value and
\* keeps value; clear() sets m_value to 0.
DeltaEncode_update(m_value, value) == [ret |-> value - m_value, m_value |-> value]

\* The deltas a DeltaEncodeIterator yields over a sequence of values.
DeltaEncoded(values) ==
    [i \in 1..Len(values) |-> values[i] - (IF i = 1 THEN 0 ELSE values[i - 1])]

\* StringTable: the strings of a block in the order of their first add; the
\* id of a string is its position, id 0 is reserved for the empty entry the
\* table starts with.
StringTable_id(table, s) == CHOOSE i \in 1..Len(table) : table[i] = s

StringTable_add(table, s) ==
    IF \E i \in 1..Len(table) : table[i] = s
    THEN [id |-> StringTable_id(table, s), table |-> table]
    ELSE [id |-> Len(table) + 1, table |-> Append(table, s)]

\* add() of each string of a sequence, in order: the ids and the table.
RECURSIVE StringTable_add_all(_, _)
StringTable_add_all(table, strings) ==
    IF strings = <<>> THEN [ids |-> <<>>, table |-> table]
    ELSE LET first == StringTable_add(table, Head(strings))
             rest  == StringTable_add_all(first.table, Tail(strings))
         IN [ids |-> <<first.id>> \o rest.ids, table |-> rest.table]

StringTable_size(table) == Len(table) * StringBytes

\* pbf_output_options, without use_compression: what the constructor of
\* PBFOutputFormat reads from the File.
pbf_output_options(file) ==
    [use_dense_nodes |-> file.pbf_dense_nodes,
     add_metadata |-> file.add_metadata,
     has_multiple_object_versions |-> file.has_multiple_object_versions]

\* Bytes of a protobuf message of the model: two per scalar field, two and
\* one per entry for a packed field that has entries, two around a
\* submessage.
PackedBytes(entries) == IF entries = <<>> THEN 0 ELSE 2 + Len(entries)

InfoBytes(info) ==
    IF DOMAIN info = {} THEN 0 ELSE 2 + 2 * Cardinality(DOMAIN info)

message_size(msg) ==
    2 + 2 + PackedBytes(msg.keys) + PackedBytes(msg.vals) + InfoBytes(msg.info)
      + (IF msg.kind = "node" THEN 4 ELSE 0)
      + PackedBytes(msg.refs) + PackedBytes(msg.roles_sid)
      + PackedBytes(msg.memids) + PackedBytes(msg.types)

RECURSIVE data_size(_)
data_size(data) ==
    IF data = <<>> THEN 0 ELSE message_size(Head(data)) + data_size(Tail(data))

\* DenseNodes::clear(): every array empty, every delta encoder at 0.
DenseNodes_clear ==
    [m_ids |-> <<>>, m_versions |-> <<>>, m_timestamps |-> <<>>,
     m_changesets |-> <<>>, m_uids |-> <<>>, m_user_sids |-> <<>>,
     m_visibles |-> <<>>, m_lats |-> <<>>, m_lons |-> <<>>, m_tags |-> <<>>,
     m_delta_id |-> 0, m_delta_timestamp |-> 0, m_delta_changeset |-> 0,
     m_delta_uid |-> 0, m_delta_user_sid |-> 0,
     m_delta_lat |-> 0, m_delta_lon |-> 0]

\* DenseNodes::size(): m_ids.size() * 3 * sizeof(int64_t).
DenseNodes_size(d) == Len(d.m_ids) * 3 * 8

\* The key of each tag, without its value.
RECURSIVE KeysOnly(_)
KeysOnly(tags) ==
    IF tags = <<>> THEN <<>> ELSE <<Head(tags)[1]>> \o KeysOnly(Tail(tags))

\* The key and value of each tag, interleaved.
RECURSIVE KeysVals(_)
KeysVals(tags) ==
    IF tags = <<>> THEN <<>>
    ELSE <<Head(tags)[1], Head(tags)[2]>> \o KeysVals(Tail(tags))

\* DenseNodes::add_node(node): the arrays and the string table afterwards.
DenseNodes_add_node(d, table, options, node) ==
    LET id   == DeltaEncode_update(d.m_delta_id, node.id)
        ts   == DeltaEncode_update(d.m_delta_timestamp, node.timestamp)
        cs   == DeltaEncode_update(d.m_delta_changeset, node.changeset)
        uid  == DeltaEncode_update(d.m_delta_uid, node.uid)
        user == StringTable_add(table, node.user)
        sid  == DeltaEncode_update(d.m_delta_user_sid, user.id)
        lat  == DeltaEncode_update(d.m_delta_lat, lonlat2int(node.y))
        lon  == DeltaEncode_update(d.m_delta_lon, lonlat2int(node.x))
        d1   == [d EXCEPT !.m_ids = Append(@, id.ret), !.m_delta_id = id.m_value]
        d2   == IF options.add_metadata
                THEN [d1 EXCEPT
                        !.m_versions = Append(@, node.version),
                        !.m_timestamps = Append(@, ts.ret),
                        !.m_delta_timestamp = ts.m_value,
                        !.m_changesets = Append(@, cs.ret),
                        !.m_delta_changeset = cs.m_value,
                        !.m_uids = Append(@, uid.ret),
                        !.m_delta_uid = uid.m_value,
                        !.m_user_sids = Append(@, sid.ret),
                        !.m_delta_user_sid = sid.m_value,
                        !.m_visibles =
                            IF options.has_multiple_object_versions
                            THEN Append(@, node.visible) ELSE @]
                ELSE d1
        t2   == IF options.add_metadata THEN user.table ELSE table
        d3   == [d2 EXCEPT !.m_lats = Append(@, lat.ret),
                           !.m_delta_lat = lat.m_value,
                           !.m_lons = Append(@, lon.ret),
                           !.m_delta_lon = lon.m_value]
        kv   == StringTable_add_all(t2, KeysVals(node.tags))
    IN [dense |-> [d3 EXCEPT !.m_tags = @ \o kv.ids \o <<0>>],
        table |-> kv.table]

\* DenseNodes::serialize(): the DenseNodes message.
DenseNodes_serialize(d, options) ==
    [kind |-> "dense", id |-> d.m_ids,
     denseinfo |-> IF options.add_metadata
                   THEN [version |-> d.m_versions, timestamp |-> d.m_timestamps,
                         changeset |-> d.m_changesets, uid |-> d.m_uids,
                         user_sid |-> d.m_user_sids,
                         visible |-> IF options.has_multiple_object_versions
                                     THEN d.m_visibles ELSE <<>>]
                   ELSE <<>>,
     lat |-> d.m_lats, lon |-> d.m_lons, keys_vals |-> d.m_tags]

\* PrimitiveBlock(options).
PrimitiveBlock_new ==
    [m_pbf_primitive_group_data |-> <<>>, m_stringtable |-> <<>>,
     m_dense_nodes |-> DenseNodes_clear, m_type |-> "unknown", m_count |-> 0]

\* PrimitiveBlock::group_data().
group_data(pb, options) ==
    IF pb.m_type = "dense"
    THEN Append(pb.m_pbf_primitive_group_data,
                DenseNodes_serialize(pb.m_dense_nodes, options))
    ELSE pb.m_pbf_primitive_group_data

\* reset that leaves the delta encoders of the dense nodes as they are.
reset_keeps_deltas(pb, type) ==
    LET d == pb.m_dense_nodes
    IN [pb EXCEPT !.m_pbf_primitive_group_data = <<>>, !.m_stringtable = <<>>,
                  !.m_dense_nodes =
                      [DenseNodes_clear EXCEPT
                          !.m_delta_id = d.m_delta_id,
                          !.m_delta_timestamp = d.m_delta_timestamp,
                          !.m_delta_changeset = d.m_delta_changeset,
                          !.m_delta_uid = d.m_delta_uid,
                          !.m_delta_user_sid = d.m_delta_user_sid,
                          !.m_delta_lat = d.m_delta_lat,
                          !.m_delta_lon = d.m_delta_lon],
                  !.m_type = type, !.m_count = 0]

\* PrimitiveBlock::reset(type).
reset(pb, type) ==
    [pb EXCEPT !.m_pbf_primitive_group_data = <<>>, !.m_stringtable = <<>>,
               !.m_dense_nodes = DenseNodes_clear, !.m_type = type,
               !.m_count = 0]

\* PrimitiveBlock::size().
PrimitiveBlock_size(pb) ==
    data_size(pb.m_pbf_primitive_group_data)
    + StringTable_size(pb.m_stringtable) + DenseNodes_size(pb.m_dense_nodes)

max_used_blob_size == (max_uncompressed_blob_size * 95) \div 100

\* can_add without the comparison of the types.
can_add_any_type(pb, type) ==
    IF pb.m_count >= max_entities_per_block THEN FALSE
    ELSE PrimitiveBlock_size(pb) < max_used_blob_size

\* can_add without the limit on the number of entities.
can_add_any_count(pb, type) ==
    IF type /= pb.m_type THEN FALSE
    ELSE PrimitiveBlock_size(pb) < max_used_blob_size

\* can_add without the limit on the size.
can_add_any_size(pb, type) ==
    IF type /= pb.m_type THEN FALSE
    ELSE pb.m_count < max_entities_per_block

\* PrimitiveBlock::can_add(type).
can_add(pb, type) ==
    IF type /= pb.m_type THEN FALSE
    ELSE IF pb.m_count >= max_entities_per_block THEN FALSE
    ELSE PrimitiveBlock_size(pb) < max_used_blob_size

\* Bytes of the DenseNodes message that serialize() builds.
DenseNodes_message_size(msg) ==
    PackedBytes(msg.id)
    + (IF DOMAIN msg.denseinfo = {} THEN 0
       ELSE 2 + PackedBytes(msg.denseinfo.version)
              + PackedBytes(msg.denseinfo.timestamp)
              + PackedBytes(msg.denseinfo.changeset)
              + PackedBytes(msg.denseinfo.uid)
              + PackedBytes(msg.denseinfo.user_sid)
              + PackedBytes(msg.denseinfo.visible))
    + PackedBytes(msg.lat) + PackedBytes(msg.lon) + PackedBytes(msg.keys_vals)

\* Bytes of the primitive group: its Node, Way and Relation messages and the
\* DenseNodes message that group_data() adds.
RECURSIVE group_data_size(_)
group_data_size(primitivegroup) ==
    IF primitivegroup = <<>> THEN 0
    ELSE (IF Head(primitivegroup).kind = "dense"
          THEN 2 + DenseNodes_message_size(Head(primitivegroup))
          ELSE message_size(Head(primitivegroup)))
         + group_data_size(Tail(primitivegroup))

\* m_msg.size() of the PrimitiveBlock message store_primitive_block builds:
\* the string table and the primitive group, each a submessage.
primitive_block_data_size(msg) ==
    2 + StringTable_size(msg.stringtable)
    + 2 + group_data_size(msg.primitivegroup)

\* The assertion at the start of SerializeBlob::operator()().
SerializeBlob_assertion(msg) ==
    primitive_block_data_size(msg) <= max_uncompressed_blob_size

\* SerializeBlob{msg, type, use_compression}(): the string the future of the
\* task resolves to, the BlobHeader followed by the Blob. A task only reads
\* the message moved into it, so the string is known when it is submitted.
SerializeBlob(msg, blob_type) ==
    <<[part |-> "BlobHeader",
       type |-> IF blob_type = "data" THEN "OSMData" ELSE "OSMHeader"],
      [part |-> "Blob", raw |-> msg]>>

\* PBFOutputFormat::store_primitive_block(). stored keeps, for every block
\* pushed, its type, its count, its size() and the size() it had when its
\* last entity was let in.
store_primitive_block(o) ==
    LET pb == o.m_primitive_block
        primitivegroup == group_data(pb, o.m_options)
    IN IF pb.m_count = 0 THEN o
       ELSE [o EXCEPT
               !.m_primitive_block.m_pbf_primitive_group_data = primitivegroup,
               !.m_output_queue =
                   Append(@, SerializeBlob(
                                 [stringtable |-> pb.m_stringtable,
                                  type |-> pb.m_type,
                                  primitivegroup |-> primitivegroup], "data")),
               !.stored =
                   Append(@, [type |-> pb.m_type, count |-> pb.m_count,
                              size |-> PrimitiveBlock_size(pb),
                              admitted |-> o.admitted])]

\* switch_primitive_block_type resetting the block without storing it.
switch_without_store(o, type) ==
    LET o1 == IF ~can_add(o.m_primitive_block, type)
              THEN [o EXCEPT !.m_primitive_block = reset(@, type)]
              ELSE o
    IN [o1 EXCEPT !.admitted = PrimitiveBlock_size(o1.m_primitive_block)]

\* PBFOutputFormat::switch_primitive_block_type(type).
switch_primitive_block_type(o, type) ==
    LET o1 == IF ~can_add(o.m_primitive_block, type)
              THEN [store_primitive_block(o) EXCEPT
                      !.m_primitive_block = reset(@, type)]
              ELSE o
    IN [o1 EXCEPT !.admitted = PrimitiveBlock_size(o1.m_primitive_block)]

\* PBFOutputFormat::add_meta(object, pbf_object): the keys, the values and
\* the Info of the object's message, and the string table afterwards.
add_meta(table, options, object) ==
    LET keys == StringTable_add_all(table,
                    [i \in 1..Len(object.tags) |-> object.tags[i][1]])
        vals == StringTable_add_all(keys.table,
                    [i \in 1..Len(object.tags) |-> object.tags[i][2]])
        user == StringTable_add(vals.table, object.user)
        info == [version |-> object.version, timestamp |-> object.timestamp,
                 changeset |-> object.changeset, uid |-> object.uid,
                 user_sid |-> user.id]
    IN [keys |-> keys.ids, vals |-> vals.ids,
        info |-> IF ~options.add_metadata THEN <<>>
                 ELSE IF options.has_multiple_object_versions
                      THEN [version |-> object.version,
                            timestamp |-> object.timestamp,
                            changeset |-> object.changeset,
                            uid |-> object.uid, user_sid |-> user.id,
                            visible |-> object.visible]
                      ELSE info,
        table |-> IF options.add_metadata THEN user.table ELSE vals.table]

\* osmium::item_type_to_nwr_index.
item_type_to_nwr_index(type) ==
    IF type = "node" THEN 0 ELSE IF type = "way" THEN 1 ELSE 2

\* Append a message to the group of the block: group() counts it.
PrimitiveBlock_add(pb, msg, table) ==
    [pb EXCEPT !.m_count = @ + 1,
               !.m_pbf_primitive_group_data = Append(@, msg),
               !.m_stringtable = table]

\* PBFOutputFormat::node(node).
PBFOutputFormat_node(o, node) ==
    IF o.m_options.use_dense_nodes
    THEN LET o1 == switch_primitive_block_type(o, "dense")
             pb == o1.m_primitive_block
             added == DenseNodes_add_node(pb.m_dense_nodes, pb.m_stringtable,
                                          o.m_options, node)
         IN [o1 EXCEPT !.m_primitive_block.m_dense_nodes = added.dense,
                       !.m_primitive_block.m_stringtable = added.table,
                       !.m_primitive_block.m_count = @ + 1]
    ELSE LET o1 == switch_primitive_block_type(o, "nodes")
             pb == o1.m_primitive_block
             meta == add_meta(pb.m_stringtable, o.m_options, node)
             msg == [kind |-> "node", id |-> node.id, keys |-> meta.keys,
                     vals |-> meta.vals, info |-> meta.info,
                     lat |-> lonlat2int(node.y), lon |-> lonlat2int(node.x),
                     refs |-> <<>>, roles_sid |-> <<>>, memids |-> <<>>,
                     types |-> <<>>]
         IN [o1 EXCEPT !.m_primitive_block =
                           PrimitiveBlock_add(pb, msg, meta.table)]

\* PBFOutputFormat::way(way).
PBFOutputFormat_way(o, way) ==
    LET o1 == switch_primitive_block_type(o, "ways")
        pb == o1.m_primitive_block
        meta == add_meta(pb.m_stringtable, o.m_options, way)
        msg == [kind |-> "way", id |-> way.id, keys |-> meta.keys,
                vals |-> meta.vals, info |-> meta.info, lat |-> 0, lon |-> 0,
                refs |-> DeltaEncoded(way.nodes), roles_sid |-> <<>>,
                memids |-> <<>>, types |-> <<>>]
    IN [o1 EXCEPT !.m_primitive_block = PrimitiveBlock_add(pb, msg, meta.table)]

\* PBFOutputFormat::relation(relation).
PBFOutputFormat_relation(o, relation) ==
    LET o1 == switch_primitive_block_type(o, "relations")
        pb == o1.m_primitive_block
        meta == add_meta(pb.m_stringtable, o.m_options, relation)
        members == relation.members
        roles == StringTable_add_all(meta.table,
                     [i \in 1..Len(members) |-> members[i].role])
        msg == [kind |-> "relation", id |-> relation.id, keys |-> meta.keys,
                vals |-> meta.vals, info |-> meta.info, lat |-> 0, lon |-> 0,
                refs |-> <<>>, roles_sid |-> roles.ids,
                memids |-> DeltaEncoded([i \in 1..Len(members) |-> members[i].ref]),
                types |-> [i \in 1..Len(members) |->
                              item_type_to_nwr_index(members[i].type)]]
    IN [o1 EXCEPT !.m_primitive_block = PrimitiveBlock_add(pb, msg, roles.table)]

\* osmium::apply(buffer.cbegin(), buffer.cend(), handler) on a PBFOutputFormat.
RECURSIVE PBFOutputFormat_apply(_, _)
PBFOutputFormat_apply(o, items) ==
    IF items = <<>> THEN o
    ELSE LET item == Head(items)
             o1 == IF item.type = "node" THEN PBFOutputFormat_node(o, item)
                   ELSE IF item.type = "way" THEN PBFOutputFormat_way(o, item)
                   ELSE PBFOutputFormat_relation(o, item)
         IN PBFOutputFormat_apply(o1, Tail(items))

\* PBFOutputFormat::write_buffer(buffer).
PBFOutputFormat_write_buffer(o, items) == PBFOutputFormat_apply(o, items)

\* PBFOutputFormat::write_header(header).
PBFOutputFormat_write_header(o, header) ==
    LET required_features ==
            <<"OsmSchema-V0.6">>
            \o (IF o.m_options.use_dense_nodes THEN <<"DenseNodes">> ELSE <<>>)
            \o (IF o.m_options.has_multiple_object_versions
                THEN <<"HistoricalInformation">> ELSE <<>>)
    IN [o EXCEPT !.m_output_queue =
            Append(@, SerializeBlob(
                          [required_features |-> required_features,
                           writingprogram |-> header.generator], "header"))]

\* PBFOutputFormat::close(): store_primitive_block(), then the empty string.
PBFOutputFormat_close(o) ==
    [store_primitive_block(o) EXCEPT !.m_output_queue = Append(@, <<>>)]

\* ------------------------------------------------------- XML encoding
\* A string of the XML output is the sequence of its tags and attributes,
\* without the white space between them.
Token(tok, name, value) == [tok |-> tok, name |-> name, value |-> value]

\* xml_string(out, in): the characters & " ' < > and the control characters
\* become entities. Of the strings of the model only "r&d" has one.
xml_string(in) == IF in = "r&d" THEN "r&amp;d" ELSE in

\* The same function character by character: a C string is the sequence of
\* its characters, each a string of length one. One pass of the for loop
\* appends the entity of the character, or the character itself.
xml_string_case(c) ==
    CASE c = "&"  -> <<"&", "a", "m", "p", ";">>
      [] c = "\"" -> <<"&", "q", "u", "o", "t", ";">>
      [] c = "'"  -> <<"&", "a", "p", "o", "s", ";">>
      [] c = "<"  -> <<"&", "l", "t", ";">>
      [] c = ">"  -> <<"&", "g", "t", ";">>
      [] c = "\n" -> <<"&", "#", "x", "A", ";">>
      [] c = "\r" -> <<"&", "#", "x", "D", ";">>
      [] c = "\t" -> <<"&", "#", "x", "9", ";">>
      [] OTHER    -> <<c>>

\* A switch that has lost the case of the apostrophe.
xml_string_no_apos(out, in) ==
    LET RECURSIVE Loop(_, _)
        Loop(o, k) ==
            IF k > Len(in) THEN o
            ELSE Loop(o \o (IF in[k] = "'" THEN <<in[k]>>
                            ELSE xml_string_case(in[k])), k + 1)
    IN Loop(out, 1)

\* xml_string(out, in) on sequences of characters: what out is afterwards.
xml_string_append(out, in) ==
    LET RECURSIVE Loop(_, _)
        Loop(o, k) ==
            IF k > Len(in) THEN o
            ELSE Loop(o \o xml_string_case(in[k]), k + 1)
    IN Loop(out, 1)

\* XMLOutputBlock(buffer, add_metadata, write_visible_flag, write_change_ops).
XMLOutputBlock(items, add_metadata, write_visible_flag, write_change_ops) ==
    [m_input_buffer |-> items, m_out |-> <<>>, m_last_op |-> "op_none",
     m_add_metadata |-> add_metadata,
     m_write_visible_flag |-> write_visible_flag /\ ~write_change_ops,
     m_write_change_ops |-> write_change_ops]

OpName(op) ==
    IF op = "op_create" THEN "create"
    ELSE IF op = "op_modify" THEN "modify" ELSE "delete"

\* XMLOutputBlock::write_meta(object).
write_meta(b, object) ==
    LET id == <<Token("attr", "id", ToString(object.id))>>
        version == IF object.version /= 0
                   THEN <<Token("attr", "version", ToString(object.version))>>
                   ELSE <<>>
        timestamp == IF object.timestamp /= 0
                     THEN <<Token("attr", "timestamp", ToString(object.timestamp))>>
                     ELSE <<>>
        user == IF object.uid /= 0
                THEN <<Token("attr", "uid", ToString(object.uid)),
                       Token("attr", "user", xml_string(object.user))>>
                ELSE <<>>
        changeset == IF object.changeset /= 0
                     THEN <<Token("attr", "changeset", ToString(object.changeset))>>
                     ELSE <<>>
        visible == IF b.m_write_visible_flag
                   THEN <<Token("attr", "visible",
                                IF object.visible THEN "true" ELSE "false")>>
                   ELSE <<>>
    IN [b EXCEPT !.m_out =
            @ \o id \o (IF b.m_add_metadata
                        THEN version \o timestamp \o user \o changeset \o visible
                        ELSE <<>>)]

\* XMLOutputBlock::write_tags(tags, spaces).
write_tags(b, tags) ==
    [b EXCEPT !.m_out =
        @ \o [i \in 1..Len(tags) |->
                 Token("tag", xml_string(tags[i][1]), xml_string(tags[i][2]))]]

\* open_close_op_tag without the comparison of op with m_last_op.
open_close_op_tag_always(b, op) ==
    [b EXCEPT
       !.m_out = @ \o (IF b.m_last_op = "op_none" THEN <<>>
                       ELSE <<Token("close", OpName(b.m_last_op), "")>>)
                   \o (IF op = "op_none" THEN <<>>
                       ELSE <<Token("open", OpName(op), "")>>),
       !.m_last_op = op]

\* XMLOutputBlock::open_close_op_tag(op).
open_close_op_tag(b, op) ==
    IF op = b.m_last_op THEN b
    ELSE [b EXCEPT
            !.m_out = @ \o (IF b.m_last_op = "op_none" THEN <<>>
                            ELSE <<Token("close", OpName(b.m_last_op), "")>>)
                        \o (IF op = "op_none" THEN <<>>
                            ELSE <<Token("open", OpName(op), "")>>),
            !.m_last_op = op]

\* The operation chosen by the version before the visibility.
operation_by_version(object) ==
    IF object.version = 1 THEN "op_create"
    ELSE IF object.visible THEN "op_modify" ELSE "op_delete"

\* The operation node(), way() and relation() hand to open_close_op_tag.
operation_of(object) ==
    IF object.visible
    THEN (IF object.version = 1 THEN "op_create" ELSE "op_modify")
    ELSE "op_delete"

Put(b, tokens) == [b EXCEPT !.m_out = @ \o tokens]

\* XMLOutputBlock::node(node).
XMLOutputBlock_node(b, node) ==
    LET b1 == IF b.m_write_change_ops
              THEN open_close_op_tag(b, operation_of(node)) ELSE b
        b2 == write_meta(Put(b1, <<Token("start", "node", "")>>), node)
        b3 == Put(b2, <<Token("attr", "lat", ToString(node.y) \o "e-7"),
                        Token("attr", "lon", ToString(node.x) \o "e-7")>>)
    IN IF node.tags = <<>> THEN Put(b3, <<Token("empty", "node", "")>>)
       ELSE Put(write_tags(Put(b3, <<Token("children", "node", "")>>), node.tags),
                <<Token("end", "node", "")>>)

\* XMLOutputBlock::way(way).
XMLOutputBlock_way(b, way) ==
    LET b1 == IF b.m_write_change_ops
              THEN open_close_op_tag(b, operation_of(way)) ELSE b
        b2 == write_meta(Put(b1, <<Token("start", "way", "")>>), way)
        nds == [i \in 1..Len(way.nodes) |->
                   Token("nd", "ref", ToString(way.nodes[i]))]
    IN IF way.tags = <<>> /\ way.nodes = <<>>
       THEN Put(b2, <<Token("empty", "way", "")>>)
       ELSE Put(write_tags(Put(b2, <<Token("children", "way", "")>> \o nds),
                           way.tags),
                <<Token("end", "way", "")>>)

\* XMLOutputBlock::relation(relation).
XMLOutputBlock_relation(b, relation) ==
    LET b1 == IF b.m_write_change_ops
              THEN open_close_op_tag(b, operation_of(relation)) ELSE b
        b2 == write_meta(Put(b1, <<Token("start", "relation", "")>>), relation)
        members == [i \in 1..Len(relation.members) |->
                       [tok |-> "member", name |-> relation.members[i].type,
                        value |-> ToString(relation.members[i].ref),
                        role |-> xml_string(relation.members[i].role)]]
    IN IF relation.tags = <<>> /\ relation.members = <<>>
       THEN Put(b2, <<Token("empty", "relation", "")>>)
       ELSE Put(write_tags(Put(b2, <<Token("children", "relation", "")>>
                                    \o members),
                           relation.tags),
                <<Token("end", "relation", "")>>)

\* osmium::apply(m_input_buffer->cbegin(), m_input_buffer->cend(), *this).
RECURSIVE XMLOutputBlock_apply(_, _)
XMLOutputBlock_apply(b, items) ==
    IF items = <<>> THEN b
    ELSE LET item == Head(items)
             b1 == IF item.type = "node" THEN XMLOutputBlock_node(b, item)
                   ELSE IF item.type = "way" THEN XMLOutputBlock_way(b, item)
                   ELSE XMLOutputBlock_relation(b, item)
         IN XMLOutputBlock_apply(b1, Tail(items))

\* XMLOutputBlock::operator()(): the string the future of the task resolves
\* to. A task only reads the Buffer moved into it.
XMLOutputBlock_run(b) ==
    LET b1 == XMLOutputBlock_apply(b, b.m_input_buffer)
        b2 == IF b1.m_write_change_ops THEN open_close_op_tag(b1, "op_none")
              ELSE b1
    IN b2.m_out

\* A write_buffer that puts the newest future in front of the older ones,
\* behind the header.
XMLOutputFormat_write_buffer_front(o, items) ==
    [o EXCEPT !.m_output_queue =
        <<Head(@),
          XMLOutputBlock_run(XMLOutputBlock(items, o.m_add_metadata,
                                            o.m_write_visible_flag,
                                            o.m_file.xml_change_format))>>
        \o Tail(@)]

\* XMLOutputFormat::write_buffer(buffer).
XMLOutputFormat_write_buffer(o, items) ==
    [o EXCEPT !.m_output_queue =
        Append(@, XMLOutputBlock_run(
                      XMLOutputBlock(items, o.m_add_metadata,
                                     o.m_write_visible_flag,
                                     o.m_file.xml_change_format)))]

\* XMLOutputFormat::write_header(header).
XMLOutputFormat_write_header(o, header) ==
    [o EXCEPT !.m_output_queue =
        Append(@, <<Token("xml", "version", "1.0"),
                    Token("start",
                          IF o.m_file.xml_change_format THEN "osmChange"
                          ELSE "osm", ""),
                    Token("attr", "version", "0.6")>>
                  \o (IF ~o.m_file.xml_change_format
                         /\ header.xml_josm_upload \in {"true", "false"}
                      THEN <<Token("attr", "upload", header.xml_josm_upload)>>
                      ELSE <<>>)
                  \o <<
                    Token("attr", "generator", xml_string(header.generator)),
                    Token("children", "", "")>>)]

\* XMLOutputFormat::close().
XMLOutputFormat_close(o) ==
    [o EXCEPT !.m_output_queue =
        @ \o << <<Token("end",
                        IF o.m_file.xml_change_format THEN "osmChange"
                        ELSE "osm", "")>>,
                <<>> >>]

\* ------------------------------------------------------------- state
VARIABLES
    buffer,     \* the Buffer the operations are called on
    other,      \* a second Buffer, the argument of add_buffer
    call,       \* the last call: its name and argument, the capacity it found
                \* and what the full-callback it invoked did ("none": not invoked)
    ret,        \* what the last call returned
    err,        \* the exception the last call threw, or "none"
    moved,      \* the Buffer object that the last call, a move, moved from
    mark,       \* the last commit's written and committed bytes while only
                \* reserve_space calls followed it (clean: none of them had the
                \* full-callback clear the buffer), else NoMark
    m_output_queue, \* InputFormat: the futures in the queue, oldest first
    promises,       \* the shared state of every future pushed so far, in the
                    \* order of the pushes: "pending", or what get() yields
    m_thread,       \* the framing thread: where it is and what it has read
    pool,           \* the futures whose decoder task the pool has not finished
    reader,         \* the consumer thread: where it is in read() or close(),
                    \* the future it popped, and whether a future pushed later
                    \* was ready before the one it popped last, at that time
    received,       \* what the read() calls have returned or thrown, in order
    output,         \* the OutputFormat of a file being written: its members,
                    \* every string pushed to its output queue so far, and
                    \* what store_primitive_block found at each block pushed
    written,        \* the Buffers handed to write_buffer so far, in order
    resolved,       \* XMLOutputFormat: the positions in the output queue of
                    \* the futures that are ready
    xml,            \* xml_string: the string it was called on last, the
                    \* output string before that call and after it
    hdr,            \* InputFormat: the header promise, the members header()
                    \* uses and what the header() calls returned or threw
    flex,           \* FlexReader: its members, and for the last read() the
                    \* Buffer the Reader gave, the area Buffers the collector
                    \* produced, the handlers applied and the Buffer returned
    rml             \* RelationMemberList: the members as they were built, the
                    \* memory holding them, the position of an iterator over
                    \* them and the positions it has visited

bufvars == <<buffer, other, call, ret, err, moved, mark>>
iovars == <<m_output_queue, promises, m_thread, pool, reader, received>>
outvars == <<output, written, resolved>>
partvars == <<xml, hdr, flex, rml>>
vars == <<buffer, other, call, ret, err, moved, mark,
          m_output_queue, promises, m_thread, pool, reader, received,
          output, written, resolved, xml, hdr, flex,
          rml>>

NoMark == [valid |-> FALSE, clean |-> FALSE, written |-> 0, bytes |-> <<>>]

Concat(items) ==
    LET RECURSIVE Cat(_)
        Cat(k) == IF k = 0 THEN <<>> ELSE Cat(k - 1) \o items[k]
    IN Cat(Len(items))

\* Sizes handed to the constructors, to grow and to reserve_space.
AlignedSizes == {k * align_bytes : k \in 0..2}
CtorSizes    == AlignedSizes \cup {12}
ReserveSizes == {4, 8, 16}
GrowSizes    == {12, 16, 32}

\* Contents of caller-owned memory: a sequence of items.
ExternalContents ==
    {<<>>, <<NodeItem>>, <<NodeItem, TagListItem>>, <<RemovedWayItem>>}

\* The buffer passed to add_buffer: external memory holding one committed item
\* followed by written but not yet committed bytes.
OtherBuffer ==
    [DefaultBuffer EXCEPT !.m_data = "external",
                          !.extmem = NodeItem \o TagListItem \o Zeros(8),
                          !.m_capacity = 24, !.m_written = 16, !.m_committed = 8]

\* InputFormat(queue_name), with the framing thread started by the derived
\* class: an empty queue, nothing read.
InputFormatInit ==
    /\ m_output_queue = <<>>
    /\ promises = <<>>
    /\ m_thread = [pc |-> "run", value |-> "none", nblobs |-> 0, ntasks |-> 0,
                   failed |-> 0]
    /\ pool = {}
    /\ reader = [pc |-> "idle", fut |-> 0, overtaken |-> FALSE]
    /\ received = <<>>

\* No OutputFormat has been created.
NoFile ==
    [format |-> "none", pbf_dense_nodes |-> FALSE, add_metadata |-> FALSE,
     has_multiple_object_versions |-> FALSE, force_visible_flag |-> FALSE,
     xml_change_format |-> FALSE]

NoOutputFormat ==
    [format |-> "none", phase |-> "none", m_file |-> NoFile,
     m_output_queue |-> <<>>]

\* The members of an OutputFormat, of either class, before its constructor
\* has set them; stored and admitted are the history store_primitive_block
\* and switch_primitive_block_type keep.
OutputFormatMembers ==
    [format |-> "none", phase |-> "none", m_file |-> NoFile,
     m_options |-> pbf_output_options(NoFile),
     m_primitive_block |-> PrimitiveBlock_new,
     m_add_metadata |-> FALSE, m_write_visible_flag |-> FALSE,
     m_output_queue |-> <<>>, stored |-> <<>>, admitted |-> 0]

OutputFormatInit ==
    /\ output = NoOutputFormat
    /\ written = <<>>
    /\ resolved = {}

BufferInit ==
    /\ buffer = DefaultBuffer
    /\ other = OtherBuffer
    /\ call = [op |-> "Buffer", arg |-> 0, cap |-> 0, fired |-> "none"]
    /\ ret = 0
    /\ err = "none"
    /\ moved = DefaultBuffer
    /\ mark = NoMark

\* No FlexReader has been constructed.
NoFlexReader ==
    [m_with_areas |-> FALSE, m_entities |-> {}, reads |-> 0,
     from_reader |-> DefaultBuffer, area_buffers |-> <<>>, applied |-> <<>>,
     ret |-> DefaultBuffer, err |-> "none"]

\* No RelationMemberList has been built.
NoMemberList == [built |-> FALSE, list |-> <<>>, mem |-> <<>>, pos |-> 0,
                 visited |-> <<>>]

\* xml_string has not been called and the output string is empty; the header
\* promise of the InputFormat is not fulfilled and header() was not called;
\* there is no FlexReader and no RelationMemberList.
PartInit ==
    /\ xml = [in |-> <<>>, before |-> <<>>, out |-> <<>>]
    /\ hdr = [m_header_promise |-> "pending", retrieved |-> FALSE,
              m_header |-> "Header()", m_header_is_initialized |-> FALSE,
              returned |-> <<>>]
    /\ flex = NoFlexReader
    /\ rml = NoMemberList

Init == BufferInit /\ InputFormatInit /\ OutputFormatInit /\ PartInit

\* Record a call and its outcome.
Did(op, arg, out, fired, newmark) ==
    /\ buffer' = out.buf
    /\ call' = [op |-> op, arg |-> arg, cap |-> buffer.m_capacity, fired |-> fired]
    /\ ret' = out.ret
    /\ err' = out.err
    /\ moved' = DefaultBuffer
    /\ mark' = newmark
    /\ UNCHANGED other
    /\ UNCHANGED iovars
    /\ UNCHANGED outvars
    /\ UNCHANGED partvars

MarkOf(b) == [valid |-> TRUE, clean |-> TRUE, written |-> b.m_written,
              bytes |-> Bytes(Data(b), 0, b.m_committed)]

Fresh == call.op = "Buffer" /\ buffer = DefaultBuffer

\* buffer = Buffer(data, size)
ConstructExternal2 ==
    /\ Fresh
    /\ \E size \in CtorSizes, items \in ExternalContents :
         /\ size % align_bytes # 0 \/ Size(Concat(items)) = size
         /\ \E out \in {CtorExternal2(Concat(items), size)} :
              Did("Buffer2", 0, out, "none", NoMark)

\* buffer = Buffer(data, capacity, committed): data holds committed bytes of
\* items, in a block of at least capacity bytes.
ConstructExternal3 ==
    /\ Fresh
    /\ \E capacity \in CtorSizes, committed \in CtorSizes, items \in ExternalContents :
         /\ committed % align_bytes # 0 \/ Size(Concat(items)) = committed
         /\ \E mem \in {Concat(items) \o Zeros(IF capacity > Size(Concat(items))
                                               THEN padded_length(capacity)
                                                      - Size(Concat(items))
                                               ELSE 0)} :
            \E out \in {CtorExternal3(mem, capacity, committed)} :
              Did("Buffer3", 0, out, "none", NoMark)

\* buffer = Buffer(capacity, auto_grow)
ConstructInternal ==
    /\ Fresh
    /\ \E capacity \in CtorSizes, auto_grow \in BOOLEAN, nulldata \in BOOLEAN :
         \E out \in {CtorInternal(capacity, auto_grow, nulldata)} :
           Did("BufferInternal", 0, out, "none", NoMark)

SetFullCallback ==
    /\ Valid(buffer)
    /\ ~buffer.m_full
    /\ Did("set_full_callback", 0, set_full_callback(buffer), "none", NoMark)

ReserveSpace ==
    /\ Valid(buffer)
    /\ \E size \in ReserveSizes : \E act \in ActsFor(buffer, size) :
         \E out \in {reserve_space(buffer, size, act)} :
           /\ out.buf.m_written <= MaxCapacity
           /\ Did("reserve_space", size, out, Fired(buffer, size, act),
                  [mark EXCEPT !.clean = @ /\ Fired(buffer, size, act) # "clear"])

Commit ==
    /\ Valid(buffer)
    /\ is_aligned(buffer)
    /\ \E out \in {commit(buffer)} :
         Did("commit", IF call.op = "commit" THEN 1 ELSE 0, out, "none", MarkOf(out.buf))

Rollback ==
    /\ Valid(buffer)
    /\ Did("rollback",
           IF mark.valid /\ mark.clean /\ buffer.m_written > mark.written THEN 1 ELSE 0,
           rollback(buffer), "none", NoMark)

Clear == Did("clear", buffer.m_written, clear(buffer), "none", NoMark)

Grow ==
    /\ Valid(buffer)
    /\ \E size \in GrowSizes :
         /\ size <= MaxCapacity
         /\ \E out \in {grow(buffer, size)} : Did("grow", size, out, "none", NoMark)

\* add_item returns a reference to the copy, so the copy has to be aligned.
AddItem ==
    /\ Valid(buffer)
    /\ buffer.m_written % align_bytes = 0
    /\ \E item \in ItemPool : \E act \in ActsFor(buffer, Size(item)) :
         \E out \in {add_item(buffer, item, act)} :
           /\ out.buf.m_written <= MaxCapacity
           /\ Did("add_item", 0, out, Fired(buffer, Size(item), act), NoMark)

AddBuffer ==
    /\ Valid(buffer)
    /\ Valid(other)
    /\ buffer.m_written % align_bytes = 0
    /\ \E act \in ActsFor(buffer, other.m_committed) : \E out \in {add_buffer(buffer, other, act)} :
         /\ out.buf.m_written <= MaxCapacity
         /\ Did("add_buffer", 0, out, Fired(buffer, other.m_committed, act), NoMark)

PushBack ==
    /\ Valid(buffer)
    /\ is_aligned(buffer)
    /\ \E item \in ItemPool : \E act \in ActsFor(buffer, Size(item)) :
         \E out \in {push_back(buffer, item, act)} :
           /\ out.buf.m_written <= MaxCapacity
           /\ Did("push_back", 0, out, Fired(buffer, Size(item), act),
                  IF out.err = "none" THEN MarkOf(out.buf) ELSE NoMark)

\* purge_removed walks the committed items, so they have to be items.
PurgeRemoved ==
    /\ Valid(buffer)
    /\ WellFormed(Data(buffer), buffer.m_committed)
    /\ \E out \in {purge_removed(buffer)} : Did("purge_removed", 0, out, "none", NoMark)

\* Buffer b(std::move(buffer)), or b = std::move(buffer) for a b made by
\* Buffer(); the calls that follow are made on b.
Move ==
    /\ call.op # "move"
    /\ \E full \in (IF buffer.m_full THEN BOOLEAN ELSE {FALSE}) :
         /\ buffer' = MovedTo(buffer)
         /\ moved' = MovedFrom(buffer, full)
    /\ call' = [op |-> "move", arg |-> 0, cap |-> buffer.m_capacity,
                fired |-> "none"]
    /\ ret' = 0
    /\ err' = "none"
    /\ mark' = NoMark
    /\ UNCHANGED other
    /\ UNCHANGED iovars
    /\ UNCHANGED outvars
    /\ UNCHANGED partvars

Next ==
    \/ ConstructExternal2
    \/ ConstructExternal3
    \/ ConstructInternal
    \/ SetFullCallback
    \/ ReserveSpace
    \/ Commit
    \/ Rollback
    \/ Clear
    \/ Grow
    \/ AddItem
    \/ AddBuffer
    \/ PushBack
    \/ PurgeRemoved
    \/ Move

Spec == Init /\ [][Next]_vars

\* ------------------------------------------------------- InputFormat
\* osmium::io::detail::InputFormat (input_format.hpp): a framing thread pushes
\* futures of Buffers into m_output_queue, the consumer pops them with read().

\* InputFormat::max_queue_size.
max_queue_size == 20

\* osmium::thread::Queue: push blocks while the queue holds max_size elements,
\* wait_and_pop blocks while it is empty and takes the oldest element.
CanPush(queue) == Len(queue) < max_queue_size
CanPop(queue) == queue # <<>>
push(queue, value) == Append(queue, value)

\* wait_and_pop taking the newest element.
wait_and_pop_newest(queue) ==
    [value |-> queue[Len(queue)], queue |-> SubSeq(queue, 1, Len(queue) - 1)]

wait_and_pop(queue) == [value |-> Head(queue), queue |-> Tail(queue)]

\* The futures whose promise is fulfilled.
Ready == {fut \in 1..Len(promises) : promises[fut] # "pending"}

\* future.get() handing out the invalid Buffer in place of an exception.
get_swallows(fut) == IF promises[fut] = "exception" THEN "invalid" ELSE promises[fut]

\* future.get() of a ready future: a valid Buffer ("buffer"), the invalid
\* Buffer ("invalid"), or the exception rethrown ("exception").
get(fut) == promises[fut]

\* The future pushed into a queue constructed without a maximum size.
PushFuture_unbounded ==
    /\ promises' = Append(promises, "pending")
    /\ m_output_queue' = push(m_output_queue, Len(promises) + 1)

\* promise.get_future() followed by queue.push(future): the future is pushed
\* before the promise is fulfilled.
PushFuture ==
    /\ CanPush(m_output_queue)
    /\ promises' = Append(promises, "pending")
    /\ m_output_queue' = push(m_output_queue, Len(promises) + 1)

\* promise.set_value / promise.set_exception on the future pushed last.
Fulfil(fut, what) == promises' = [promises EXCEPT ![fut] = what]

\* send_to_queue(queue, buffer), first statement: the framing thread has
\* decoded a blob itself and pushes the future of its Buffer.
SendToQueue ==
    /\ m_thread.pc = "run"
    /\ m_thread.nblobs < MaxBlobs
    /\ PushFuture
    /\ m_thread' = [m_thread EXCEPT !.pc = "set_value", !.value = "buffer",
                                    !.nblobs = @ + 1]
    /\ UNCHANGED <<pool, reader, received>>
    /\ UNCHANGED bufvars
    /\ UNCHANGED outvars
    /\ UNCHANGED partvars

\* send_end_of_file(queue): send_to_queue with Buffer{}, at the end of the
\* file or after the framing thread reported an exception.
SendEndOfFile ==
    /\ m_thread.pc \in {"run", "eof"}
    /\ PushFuture
    /\ m_thread' = [m_thread EXCEPT !.pc = "set_value", !.value = "invalid"]
    /\ UNCHANGED <<pool, reader, received>>
    /\ UNCHANGED bufvars
    /\ UNCHANGED outvars
    /\ UNCHANGED partvars

\* send_to_queue, second statement: promise.set_value(std::move(buffer)).
SetValue ==
    /\ m_thread.pc = "set_value"
    /\ Fulfil(Len(promises), m_thread.value)
    /\ m_thread' = [m_thread EXCEPT
                      !.pc = IF m_thread.value = "invalid" THEN "done" ELSE "run",
                      !.value = "none"]
    /\ UNCHANGED <<m_output_queue, pool, reader, received>>
    /\ UNCHANGED bufvars
    /\ UNCHANGED outvars
    /\ UNCHANGED partvars

\* The framing thread submits a decoder task to the pool and pushes the
\* task's future.
SubmitTask ==
    /\ m_thread.pc = "run"
    /\ m_thread.nblobs < MaxBlobs
    /\ m_thread.ntasks < MaxTasks
    /\ PushFuture
    /\ pool' = pool \cup {Len(promises) + 1}
    /\ m_thread' = [m_thread EXCEPT !.nblobs = @ + 1, !.ntasks = @ + 1]
    /\ UNCHANGED <<reader, received>>
    /\ UNCHANGED bufvars
    /\ UNCHANGED outvars
    /\ UNCHANGED partvars

\* A worker finishes a decoder task: with a Buffer, or by throwing.
WorkerFinish ==
    \E fut \in pool : \E what \in {"buffer", "exception"} :
        /\ Fulfil(fut, what)
        /\ pool' = pool \ {fut}
        /\ UNCHANGED <<m_output_queue, m_thread, reader, received>>
        /\ UNCHANGED bufvars
        /\ UNCHANGED outvars
        /\ UNCHANGED partvars

\* send_exception(queue), first statements: the framing thread caught an
\* exception and pushes a future for it.
SendException ==
    /\ m_thread.pc = "run"
    /\ PushFuture
    /\ m_thread' = [m_thread EXCEPT !.pc = "set_exception"]
    /\ UNCHANGED <<pool, reader, received>>
    /\ UNCHANGED bufvars
    /\ UNCHANGED outvars
    /\ UNCHANGED partvars

\* The framing thread exiting after send_exception without sending the end
\* of file.
SetException_exits ==
    /\ m_thread.pc = "set_exception"
    /\ promises' = [promises EXCEPT ![Len(promises)] = "exception"]
    /\ m_thread' = [m_thread EXCEPT !.pc = "done", !.failed = Len(promises)]
    /\ UNCHANGED <<m_output_queue, pool, reader, received>>
    /\ UNCHANGED bufvars
    /\ UNCHANGED outvars
    /\ UNCHANGED partvars

\* send_exception, last statement: promise.set_exception(current_exception()).
\* The framing thread then sends the end of file and exits.
SetException ==
    /\ m_thread.pc = "set_exception"
    /\ Fulfil(Len(promises), "exception")
    /\ m_thread' = [m_thread EXCEPT !.pc = "eof", !.failed = Len(promises)]
    /\ UNCHANGED <<m_output_queue, pool, reader, received>>
    /\ UNCHANGED bufvars
    /\ UNCHANGED outvars
    /\ UNCHANGED partvars

\* The consumer calls read().
Read ==
    /\ reader.pc = "idle"
    /\ reader' = [pc |-> "wait_and_pop", fut |-> 0, overtaken |-> FALSE]
    /\ UNCHANGED <<m_output_queue, promises, m_thread, pool, received>>
    /\ UNCHANGED bufvars
    /\ UNCHANGED outvars
    /\ UNCHANGED partvars

\* read(): m_output_queue.wait_and_pop(buffer_future).
WaitAndPop ==
    /\ reader.pc = "wait_and_pop"
    /\ CanPop(m_output_queue)
    /\ \E popped \in {wait_and_pop(m_output_queue)} :
         /\ m_output_queue' = popped.queue
         /\ reader' = [pc |-> "get", fut |-> popped.value,
                       overtaken |-> /\ popped.value \notin Ready
                                     /\ \E later \in Ready : later > popped.value]
    /\ UNCHANGED <<promises, m_thread, pool, received>>
    /\ UNCHANGED bufvars
    /\ UNCHANGED outvars
    /\ UNCHANGED partvars

\* read(): return buffer_future.get(), which waits for the promise and returns
\* its Buffer or throws its exception.
FutureGet ==
    /\ reader.pc = "get"
    /\ reader.fut \in Ready
    /\ received' = Append(received, [fut |-> reader.fut, what |-> get(reader.fut)])
    /\ reader' = [reader EXCEPT !.pc = "idle", !.fut = 0]
    /\ UNCHANGED <<m_output_queue, promises, m_thread, pool>>
    /\ UNCHANGED bufvars
    /\ UNCHANGED outvars
    /\ UNCHANGED partvars

\* close(): m_thread is joinable.
Close ==
    /\ reader.pc = "idle"
    /\ reader' = [pc |-> "join", fut |-> 0, overtaken |-> FALSE]
    /\ UNCHANGED <<m_output_queue, promises, m_thread, pool, received>>
    /\ UNCHANGED bufvars
    /\ UNCHANGED outvars
    /\ UNCHANGED partvars

\* close(): m_thread.join() returns once the framing thread has exited.
Join ==
    /\ reader.pc = "join"
    /\ m_thread.pc = "done"
    /\ reader' = [reader EXCEPT !.pc = "closed"]
    /\ UNCHANGED <<m_output_queue, promises, m_thread, pool, received>>
    /\ UNCHANGED bufvars
    /\ UNCHANGED outvars
    /\ UNCHANGED partvars

InputFormatNext ==
    \/ SendToQueue
    \/ SendEndOfFile
    \/ SetValue
    \/ SubmitTask
    \/ WorkerFinish
    \/ SendException
    \/ SetException
    \/ Read
    \/ WaitAndPop
    \/ FutureGet
    \/ Close
    \/ Join

InputFormatSpec == Init /\ [][InputFormatNext]_vars

\* The steps of the framing thread.
FramingThread ==
    \/ SendToQueue
    \/ SendEndOfFile
    \/ SetValue
    \/ SubmitTask
    \/ SendException
    \/ SetException

\* The framing thread, the workers of the pool and a consumer inside join()
\* are threads the scheduler keeps running while they are not blocked; when
\* the consumer calls read() or close() is up to the consumer.
InputFormatFairSpec ==
    /\ InputFormatSpec
    /\ WF_vars(FramingThread)
    /\ WF_vars(WorkerFinish)
    /\ WF_vars(Join)

\* ------------------------------------------------ InputFormat::header()
\* The framing thread of the derived class has decoded the header of the
\* file, before any data, and fulfils m_header_promise.
SetHeaderPromise ==
    /\ m_thread.pc = "run"
    /\ m_thread.nblobs = 0
    /\ hdr.m_header_promise = "pending"
    /\ hdr' = [hdr EXCEPT !.m_header_promise = "file header"]
    /\ UNCHANGED iovars
    /\ UNCHANGED bufvars
    /\ UNCHANGED outvars
    /\ UNCHANGED <<xml, flex, rml>>

\* header(): while m_header_is_initialized is false it takes the future of
\* m_header_promise, which std::promise hands out once (a second get_future()
\* throws std::future_error), waits for it and stores the Header; then it
\* returns m_header. Nothing assigns m_header_is_initialized.
InputFormat_header(h) ==
    IF ~h.m_header_is_initialized
    THEN IF h.retrieved
         THEN [h EXCEPT !.returned = Append(@, "future_error")]
         ELSE [h EXCEPT !.retrieved = TRUE,
                        !.m_header = h.m_header_promise,
                        !.returned = Append(@, h.m_header_promise)]
    ELSE [h EXCEPT !.returned = Append(@, h.m_header)]

\* The consumer calls header(); a call that waits for the promise returns
\* when the promise is fulfilled.
Header ==
    /\ reader.pc = "idle"
    /\ Len(hdr.returned) < MaxHeaderCalls
    /\ hdr.retrieved \/ hdr.m_header_is_initialized
         \/ hdr.m_header_promise # "pending"
    /\ hdr' = InputFormat_header(hdr)
    /\ UNCHANGED iovars
    /\ UNCHANGED bufvars
    /\ UNCHANGED outvars
    /\ UNCHANGED <<xml, flex, rml>>

\* An InputFormat whose framing thread decodes every blob itself, with the
\* consumer calling header(), read() and close().
HeaderNext ==
    \/ SetHeaderPromise
    \/ Header
    \/ SendToQueue
    \/ SendEndOfFile
    \/ SetValue
    \/ Read
    \/ WaitAndPop
    \/ FutureGet
    \/ Close
    \/ Join

HeaderSpec == Init /\ [][HeaderNext]_vars

\* ------------------------------------------------------------ FlexReader
\* The entities a FlexReader can be asked for.
EntityBits == {"node", "way", "relation", "area"}

\* FlexReader(file, location_handler, entities): m_with_areas and m_entities.
FlexReader(entities) ==
    [NoFlexReader EXCEPT
        !.m_with_areas = "area" \in entities,
        !.m_entities = (entities \ {"area"})
                       \cup (IF "area" \in entities THEN {"node", "way"} ELSE {})]

\* A Buffer as a parser makes it: Buffer(capacity) with auto_grow::yes, the
\* items added with push_back, so that everything written is committed.
RECURSIVE Filled(_, _)
Filled(capacity, items) ==
    IF items = <<>> THEN CtorInternal(capacity, TRUE, FALSE).buf
    ELSE push_back(Filled(capacity, SubSeq(items, 1, Len(items) - 1)),
                   items[Len(items)], "clear").buf

\* What m_reader.read() returns: a Buffer of the file, or the invalid Buffer
\* at the end of the data.
ReaderBuffers ==
    {DefaultBuffer}
    \cup {Filled(capacity, items) :
            capacity \in {8, 16}, items \in ExternalContents \ {<<>>}}

\* The Buffers the collector hands to the callback while the handlers are
\* applied: each holds the areas completed by an object of the Buffer; the
\* last one keeps an item that is written and not committed.
AreaBuffers ==
    {Filled(8, <<NodeItem>>), Filled(8, <<NodeItem, TagListItem>>),
     [Filled(16, <<TagListItem>>) EXCEPT !.m_written = 16]}

AreaBufferLists == UNION {[1..k -> AreaBuffers] : k \in 0..MaxAreaBuffers}

\* The loop with the commit left out.
RECURSIVE AddAreaBuffers_uncommitted(_, _)
AddAreaBuffers_uncommitted(b, area_buffers) ==
    IF area_buffers = <<>> THEN Outcome(b, 0, "none")
    ELSE LET added == add_buffer(b, Head(area_buffers), "clear")
         IN IF added.err # "none" THEN added
            ELSE AddAreaBuffers_uncommitted(added.buf, Tail(area_buffers))

\* The loop over area_buffers: buffer.add_buffer(b); buffer.commit().
RECURSIVE AddAreaBuffers(_, _)
AddAreaBuffers(b, area_buffers) ==
    IF area_buffers = <<>> THEN Outcome(b, 0, "none")
    ELSE LET added == add_buffer(b, Head(area_buffers), "clear")
         IN IF added.err # "none" THEN added
            ELSE AddAreaBuffers(commit(added.buf).buf, Tail(area_buffers))

\* FlexReader::read(), for the Buffer m_reader.read() returned and the area
\* Buffers the callback was given while the handlers ran.
FlexReader_read(f, from_reader, area_buffers) ==
    IF Valid(from_reader)
    THEN IF f.m_with_areas
         THEN LET out == AddAreaBuffers(from_reader, area_buffers)
              IN [f EXCEPT !.reads = @ + 1, !.from_reader = from_reader,
                           !.area_buffers = area_buffers,
                           !.applied = <<"m_location_handler", "m_collector">>,
                           !.ret = out.buf, !.err = out.err]
         ELSE [f EXCEPT !.reads = @ + 1, !.from_reader = from_reader,
                        !.area_buffers = <<>>,
                        !.applied =
                            IF f.m_entities \cap {"node", "way"} # {}
                            THEN <<"m_location_handler">> ELSE <<>>,
                        !.ret = from_reader, !.err = "none"]
    ELSE [f EXCEPT !.reads = @ + 1, !.from_reader = from_reader,
                   !.area_buffers = <<>>, !.applied = <<>>,
                   !.ret = from_reader, !.err = "none"]

CreateFlexReader ==
    /\ flex = NoFlexReader
    /\ \E entities \in SUBSET EntityBits : flex' = FlexReader(entities)
    /\ UNCHANGED <<xml, hdr, rml>>
    /\ UNCHANGED bufvars
    /\ UNCHANGED iovars
    /\ UNCHANGED outvars

\* read(): the collector produces area Buffers only when areas were asked
\* for; after the invalid Buffer the Reader returns nothing more.
FlexRead ==
    /\ flex # NoFlexReader
    /\ flex.reads < MaxReads
    /\ flex.reads = 0 \/ Valid(flex.from_reader)
    /\ \E from_reader \in ReaderBuffers :
       \E area_buffers \in (IF flex.m_with_areas /\ Valid(from_reader)
                            THEN AreaBufferLists ELSE {<<>>}) :
         flex' = FlexReader_read(flex, from_reader, area_buffers)
    /\ UNCHANGED <<xml, hdr, rml>>
    /\ UNCHANGED bufvars
    /\ UNCHANGED iovars
    /\ UNCHANGED outvars

FlexReaderNext ==
    \/ CreateFlexReader
    \/ FlexRead

FlexReaderSpec == Init /\ [][FlexReaderNext]_vars

\* -------------------------------------------------------- RelationMember
\* sizeof(RelationMember): int64 m_ref, item_type m_type, uint32 m_flags; and
\* sizeof(size_t), of the LP64 data model.
sizeof_RelationMember == 16
sizeof_size_t == 8

\* Roles are given by their length; the objects a full member embeds.
RoleLengths == {1, 5, 8, 9}
RelationItem == ItemImage(16, 3, FALSE, 4)
EmbeddedObjects == {NodeItem, RelationItem}

\* The members a builder is asked to add: RelationMember(ref, type, full),
\* the role and, for a full member, the object.
MemberSpecs ==
    {[ref |-> 5, type |-> type_node, full |-> FALSE, role |-> n, object |-> <<>>] :
        n \in RoleLengths}
    \cup {[ref |-> 7, type |-> o[1][2], full |-> TRUE, role |-> n, object |-> o] :
            n \in RoleLengths, o \in EmbeddedObjects}

\* The bytes of one member as the builder writes them: the RelationMember,
\* the length of the role as a size_t, the role padded, and for a full member
\* the Item of the object.
MemberImage(m) ==
    << <<m.ref, 0, 0>>, <<m.type, IF m.full THEN 1 ELSE 0, 0>>, <<m.role, 0, 0>> >>
      \o [k \in 1..(padded_length(m.role) \div align_bytes) |-> <<9, 9, 9>>]
      \o m.object

RECURSIVE ListImage(_)
ListImage(list) ==
    IF list = <<>> THEN <<>>
    ELSE MemberImage(Head(list)) \o ListImage(Tail(list))

\* m_flags of the member at byte offset self of mem, and full_member().
m_flags(mem, self) == CellAt(mem, self + 8)[2]
full_member(mem, self) == m_flags(mem, self) = 1

\* endpos() with the length of the role not padded.
endpos_unpadded(mem, self) ==
    LET current == self + sizeof_RelationMember
    IN current + sizeof_size_t + CellAt(mem, current)[1]

\* endpos(): the end of the role.
endpos(mem, self) ==
    LET current == self + sizeof_RelationMember
    IN current + sizeof_size_t + padded_length(CellAt(mem, current)[1])

\* next(): the position of the following member.
next(mem, self) ==
    IF full_member(mem, self)
    THEN endpos(mem, self) + item_size(mem, endpos(mem, self))
    ELSE endpos(mem, self)

BuildMemberList ==
    /\ ~rml.built
    /\ \E k \in 0..MaxMembers : \E list \in [1..k -> MemberSpecs] :
         rml' = [built |-> TRUE, list |-> list, mem |-> ListImage(list),
                 pos |-> 0, visited |-> <<>>]
    /\ UNCHANGED <<xml, hdr, flex>>
    /\ UNCHANGED bufvars
    /\ UNCHANGED iovars
    /\ UNCHANGED outvars

\* CollectionIterator::operator++ on an iterator that is not at end().
IteratorNext ==
    /\ rml.built
    /\ rml.pos < Size(rml.mem)
    /\ rml' = [rml EXCEPT !.visited = Append(@, rml.pos),
                          !.pos = next(rml.mem, rml.pos)]
    /\ UNCHANGED <<xml, hdr, flex>>
    /\ UNCHANGED bufvars
    /\ UNCHANGED iovars
    /\ UNCHANGED outvars

MemberListNext ==
    \/ BuildMemberList
    \/ IteratorNext

MemberListSpec == Init /\ [][MemberListNext]_vars

\* ------------------------------------------------ the output formats
\* The Files an OutputFormat is created for: the format and the options the
\* constructors read.
PBFFiles ==
    [format : {"pbf"}, pbf_dense_nodes : BOOLEAN, add_metadata : BOOLEAN,
     has_multiple_object_versions : BOOLEAN, force_visible_flag : {FALSE},
     xml_change_format : {FALSE}]

XMLFiles ==
    [format : {"xml"}, pbf_dense_nodes : {TRUE}, add_metadata : BOOLEAN,
     has_multiple_object_versions : BOOLEAN, force_visible_flag : BOOLEAN,
     xml_change_format : BOOLEAN]

\* The Header handed to write_header.
Headers == {[generator |-> "r&d", xml_josm_upload |-> "true"]}

\* PBFOutputFormat(file, output_queue).
PBFOutputFormat(file) ==
    [OutputFormatMembers EXCEPT !.format = "pbf", !.phase = "new", !.m_file = file,
                           !.m_options = pbf_output_options(file),
                           !.m_primitive_block = PrimitiveBlock_new]

\* XMLOutputFormat that does not look at force_visible_flag.
XMLOutputFormat_unforced(file) ==
    [OutputFormatMembers EXCEPT
        !.format = "xml", !.phase = "new", !.m_file = file,
        !.m_add_metadata = file.add_metadata,
        !.m_write_visible_flag = file.has_multiple_object_versions]

\* XMLOutputFormat(file, output_queue).
XMLOutputFormat(file) ==
    [OutputFormatMembers EXCEPT
        !.format = "xml", !.phase = "new", !.m_file = file,
        !.m_add_metadata = file.add_metadata,
        !.m_write_visible_flag =
            file.has_multiple_object_versions \/ file.force_visible_flag]

\* OutputFormatFactory::create_output(file, output_queue) for a PBF file.
CreatePBFOutputFormat ==
    /\ output.format = "none"
    /\ \E file \in PBFFiles : output' = PBFOutputFormat(file)
    /\ UNCHANGED <<written, resolved>>
    /\ UNCHANGED bufvars
    /\ UNCHANGED iovars
    /\ UNCHANGED partvars

\* OutputFormatFactory::create_output(file, output_queue) for an XML file.
CreateXMLOutputFormat ==
    /\ output.format = "none"
    /\ \E file \in XMLFiles : output' = XMLOutputFormat(file)
    /\ UNCHANGED <<written, resolved>>
    /\ UNCHANGED bufvars
    /\ UNCHANGED iovars
    /\ UNCHANGED partvars

\* The Writer calls write_header once, then write_buffer for each Buffer it
\* is given, then close.
PBFWriteHeader ==
    /\ output.format = "pbf"
    /\ output.phase = "new"
    /\ \E header \in Headers :
        output' = [PBFOutputFormat_write_header(output, header)
                       EXCEPT !.phase = "open"]
    /\ UNCHANGED <<written, resolved>>
    /\ UNCHANGED bufvars
    /\ UNCHANGED iovars
    /\ UNCHANGED partvars

PBFWriteBuffer ==
    /\ output.format = "pbf"
    /\ output.phase = "open"
    /\ Len(written) < MaxBuffers
    /\ \E items \in Buffers(MaxObjects - Len(Concat(written))) :
        /\ output' = PBFOutputFormat_write_buffer(output, items)
        /\ written' = Append(written, items)
    /\ UNCHANGED resolved
    /\ UNCHANGED bufvars
    /\ UNCHANGED iovars
    /\ UNCHANGED partvars

PBFClose ==
    /\ output.format = "pbf"
    /\ output.phase = "open"
    /\ output' = [PBFOutputFormat_close(output) EXCEPT !.phase = "closed"]
    /\ UNCHANGED <<written, resolved>>
    /\ UNCHANGED bufvars
    /\ UNCHANGED iovars
    /\ UNCHANGED partvars

XMLWriteHeader ==
    /\ output.format = "xml"
    /\ output.phase = "new"
    /\ \E header \in Headers :
        output' = [XMLOutputFormat_write_header(output, header)
                       EXCEPT !.phase = "open"]
    /\ resolved' = resolved \cup {Len(output.m_output_queue) + 1}
    /\ UNCHANGED written
    /\ UNCHANGED bufvars
    /\ UNCHANGED iovars
    /\ UNCHANGED partvars

XMLWriteBuffer ==
    /\ output.format = "xml"
    /\ output.phase = "open"
    /\ Len(written) < MaxBuffers
    /\ \E items \in Buffers(MaxObjects - Len(Concat(written))) :
        /\ output' = XMLOutputFormat_write_buffer(output, items)
        /\ written' = Append(written, items)
    /\ UNCHANGED resolved
    /\ UNCHANGED bufvars
    /\ UNCHANGED iovars
    /\ UNCHANGED partvars

XMLClose ==
    /\ output.format = "xml"
    /\ output.phase = "open"
    /\ output' = [XMLOutputFormat_close(output) EXCEPT !.phase = "closed"]
    /\ resolved' = resolved \cup {Len(output.m_output_queue) + 1,
                                  Len(output.m_output_queue) + 2}
    /\ UNCHANGED written
    /\ UNCHANGED bufvars
    /\ UNCHANGED iovars
    /\ UNCHANGED partvars

\* A thread of the pool finishes the XMLOutputBlock task of one of the
\* Buffers written, whichever it took: the future of the task becomes ready.
XMLPoolFinish ==
    /\ output.format = "xml"
    /\ \E p \in (1..Len(output.m_output_queue)) \ resolved :
         resolved' = resolved \cup {p}
    /\ UNCHANGED <<output, written>>
    /\ UNCHANGED bufvars
    /\ UNCHANGED iovars
    /\ UNCHANGED partvars

OutputFormatNext ==
    \/ CreatePBFOutputFormat
    \/ CreateXMLOutputFormat
    \/ PBFWriteHeader
    \/ PBFWriteBuffer
    \/ PBFClose
    \/ XMLWriteHeader
    \/ XMLWriteBuffer
    \/ XMLClose

OutputFormatSpec == Init /\ [][OutputFormatNext]_vars

\* An XMLOutputFormat together with the threads of the pool that run its
\* XMLOutputBlock tasks.
XMLOutputNext ==
    \/ CreateXMLOutputFormat
    \/ XMLWriteHeader
    \/ XMLWriteBuffer
    \/ XMLPoolFinish
    \/ XMLClose

XMLOutputSpec == Init /\ [][XMLOutputNext]_vars

\* ------------------------------------------------- xml_string, by character
\* The characters of the strings xml_string is called on: the eight it
\* replaces and three it copies, two of which occur in entities.
SpecialChars == {"&", "\"", "'", "<", ">", "\n", "\r", "\t"}
Chars == SpecialChars \cup {"a", ";", "#"}
CStrings == UNION {[1..k -> Chars] : k \in 0..MaxChars}

\* xml_string(out, in) is called on an output string that is empty or holds
\* what earlier calls appended.
XmlString ==
    /\ Len(xml.out) <= MaxChars
    /\ \E in \in CStrings :
         xml' = [in |-> in, before |-> xml.out,
                 out |-> xml_string_append(xml.out, in)]
    /\ UNCHANGED <<hdr, flex, rml>>
    /\ UNCHANGED bufvars
    /\ UNCHANGED iovars
    /\ UNCHANGED outvars

XmlStringNext ==
    \/ XmlString

XmlStringSpec == Init /\ [][XmlStringNext]_vars

\* ------------------------------------------------------------- claims
Grew == buffer.m_capacity > call.cap

\* C1: in every reachable state of a Buffer, 0 <= committed <= written <=
\* capacity.
C1_WatermarksOrdered ==
    /\ 0 <= buffer.m_committed
    /\ buffer.m_committed <= buffer.m_written
    /\ buffer.m_written <= buffer.m_capacity

\* C2, as stated: committed, written and capacity are multiples of the
\* alignment in every reachable state.
C2_AllAligned ==
    /\ buffer.m_committed % align_bytes = 0
    /\ buffer.m_written % align_bytes = 0
    /\ buffer.m_capacity % align_bytes = 0

\* C2, amended: committed and capacity are multiples of the alignment in every
\* reachable state, and so is written in the state every commit leaves.
C2_CommittedCapacityAligned ==
    /\ buffer.m_committed % align_bytes = 0
    /\ buffer.m_capacity % align_bytes = 0
    /\ (call.op \in {"commit", "push_back"} /\ err = "none")
         => buffer.m_written % align_bytes = 0

\* A reserve_space that had to grow the buffer left written unaligned.
C2_Witness ==
    /\ call.op = "reserve_space" /\ err = "none" /\ Grew
    /\ buffer.m_written % align_bytes # 0
    /\ buffer.m_committed > 0

\* C3: a reserve_space(n) that returns, on a Buffer without full-callback,
\* returns the old written offset, advances written by exactly n and leaves
\* committed alone, whether or not it grew the buffer.
C3_ReserveAdvances ==
    [][(call'.op = "reserve_space" /\ err' = "none" /\ ~buffer.m_full)
        => /\ ret' = buffer.m_written
           /\ buffer'.m_written = buffer.m_written + call'.arg
           /\ buffer'.m_committed = buffer.m_committed]_vars

\* A reserve_space at a non-zero offset that grew a buffer without callback.
C3_Witness ==
    /\ call.op = "reserve_space" /\ err = "none" /\ Grew /\ ~buffer.m_full
    /\ ret > 0 /\ buffer.m_committed > 0

\* A Buffer reserve_space cannot grow: external memory, or auto_grow::no.
NonGrowable(b) == b.m_data = "external" \/ ~b.m_auto_grow

AtGrowth(b, fired) == IF fired = "none" THEN b ELSE CallFull(b, fired).buf

\* TRUE when c = capacity * 2^k for the smallest k >= 1 with need <= c.
SmallestDoubling(c, capacity, need) ==
    \E k \in 1..8 :
        /\ c = capacity * (2 ^ k)
        /\ need <= c
        /\ k = 1 \/ need > capacity * (2 ^ (k - 1))

C6_Commit ==
    [][(call'.op = "commit")
        => /\ buffer'.m_committed = buffer.m_written
           /\ ret' = buffer.m_committed
           /\ buffer'.m_written = buffer.m_written
           /\ buffer'.m_capacity = buffer.m_capacity
           /\ (call.op = "commit")
                => (ret' = buffer.m_committed /\ buffer' = buffer)]_vars

\* A commit right after a commit, on a buffer holding data.
C6_Witness ==
    /\ call.op = "commit" /\ call.arg = 1
    /\ ret = buffer.m_committed /\ ret > 0

\* C7, as stated: rollback() sets written to committed and leaves committed
\* and capacity alone; after a commit followed by reserve_space calls only, it
\* restores written to its value at the commit, and the committed bytes are
\* those of the commit.
C7_RollbackRestoresCommit ==
    [][(call'.op = "rollback")
        => /\ buffer'.m_written = buffer.m_committed
           /\ buffer'.m_committed = buffer.m_committed
           /\ buffer'.m_capacity = buffer.m_capacity
           /\ mark.valid
                => /\ buffer'.m_written = mark.written
                   /\ Bytes(Data(buffer'), 0, buffer'.m_committed) = mark.bytes]_vars

\* C7, amended: the same, for reserve_space calls in which no full-callback
\* cleared the buffer.
C7_RollbackRestoresCleanCommit ==
    [][(call'.op = "rollback")
        => /\ buffer'.m_written = buffer.m_committed
           /\ buffer'.m_committed = buffer.m_committed
           /\ buffer'.m_capacity = buffer.m_capacity
           /\ (mark.valid /\ mark.clean)
                => /\ buffer'.m_written = mark.written
                   /\ Bytes(Data(buffer'), 0, buffer'.m_committed) = mark.bytes]_vars

\* A rollback of reservations made after a commit of data.
C7_Witness ==
    /\ call.op = "rollback" /\ call.arg = 1
    /\ buffer.m_written = buffer.m_committed /\ buffer.m_committed > 0
    /\ WellFormed(Data(buffer), buffer.m_committed)

\* C8: clear() zeroes written and committed, returns the previous committed,
\* leaves capacity and validity alone, and does nothing to an invalid buffer.
C8_Clear ==
    [][(call'.op = "clear")
        => /\ buffer'.m_written = 0
           /\ buffer'.m_committed = 0
           /\ ret' = buffer.m_committed
           /\ buffer'.m_capacity = buffer.m_capacity
           /\ Valid(buffer') = Valid(buffer)
           /\ ~Valid(buffer) => (ret' = 0 /\ buffer' = buffer)]_vars

\* A clear of a buffer whose written mark was ahead of its committed mark.
C8_Witness ==
    /\ call.op = "clear" /\ ret > 0 /\ call.arg > ret
    /\ buffer.m_written = 0 /\ buffer.m_committed = 0 /\ Valid(buffer)

\* What add_buffer(other) does when it returns: the committed bytes of other
\* copied to the old written offset, written advanced by other.committed,
\* committed and the bytes below it untouched.
AppendsCommitted ==
    /\ buffer'.m_written = buffer.m_written + other.m_committed
    /\ Bytes(Data(buffer'), buffer.m_written, other.m_committed)
         = Bytes(Data(other), 0, other.m_committed)
    /\ buffer'.m_committed = buffer.m_committed
    /\ Bytes(Data(buffer'), 0, buffer.m_written) = Bytes(Data(buffer), 0, buffer.m_written)

\* What the commit() after an add_buffer(other) makes visible.
CommitShowsAppended ==
    /\ buffer'.m_committed = buffer.m_written
    /\ Bytes(Data(buffer'), buffer.m_written - other.m_committed, other.m_committed)
         = Bytes(Data(other), 0, other.m_committed)

\* C9, as stated: add_buffer(other) appends exactly the committed prefix of
\* other at the old written offset, changes neither the destination's
\* committed nor other, and the next commit() makes the appended items
\* visible.
C9_AddBuffer ==
    [][/\ other' = other
       /\ (call'.op = "add_buffer" /\ err' = "none") => AppendsCommitted
       /\ (call.op = "add_buffer" /\ err = "none" /\ call'.op = "commit")
            => CommitShowsAppended]_vars

\* C9, amended: the same, for calls in which no full-callback cleared the
\* destination.
C9_AddBufferNoClear ==
    [][/\ other' = other
       /\ (call'.op = "add_buffer" /\ err' = "none" /\ call'.fired # "clear")
            => AppendsCommitted
       /\ (call.op = "add_buffer" /\ err = "none" /\ call'.op = "commit")
            => CommitShowsAppended]_vars

\* An add_buffer behind committed items, into a buffer it had to grow.
C9_Witness ==
    /\ call.op = "add_buffer" /\ err = "none" /\ call.fired = "none" /\ Grew
    /\ buffer.m_committed > 0
    /\ buffer.m_written = buffer.m_committed + other.m_committed
    /\ other.m_written > other.m_committed

\* The committed items, of every type.
Items(b) == ItemsFrom(Data(b), 0, b.m_committed)

\* TRUE when no committed item of b carries the removed flag.
NoneRemoved(b) ==
    LET RECURSIVE None(_)
        None(pos) == IF pos >= b.m_committed THEN TRUE
                     ELSE /\ ~item_removed(Data(b), pos)
                          /\ None(pos + padded_size(Data(b), pos))
    IN None(0)

\* C10: purge_removed on a buffer without removed items changes neither the
\* items nor committed and calls the callback never; a purge_removed right
\* after a purge_removed changes neither and calls the callback never.
C10_PurgeIdempotent ==
    [][(call'.op = "purge_removed"
          /\ (NoneRemoved(buffer) \/ call.op = "purge_removed"))
        => /\ Items(buffer') = Items(buffer)
           /\ buffer'.m_committed = buffer.m_committed
           /\ ret' = <<>>]_vars

\* The moving_in_buffer calls a compaction of the committed items of b makes:
\* one for each item without the removed flag that has items with the flag
\* before it, from its offset to the sum of the padded sizes of the items
\* kept before it, with the item's bytes as they are before the purge.
RECURSIVE ShiftsFrom(_, _, _, _)
ShiftsFrom(mem, pos, new, end) ==
    IF pos >= end THEN <<>>
    ELSE LET n == padded_size(mem, pos) IN
         IF item_removed(mem, pos) THEN ShiftsFrom(mem, pos + n, new, end)
         ELSE (IF pos # new
               THEN <<[old |-> pos, new |-> new, item |-> Bytes(mem, pos, n)]>>
               ELSE <<>>) \o ShiftsFrom(mem, pos + n, new + n, end)
Shifts(b) == ShiftsFrom(Data(b), 0, 0, b.m_committed)

\* C11: purge_removed calls callback(old_offset, new_offset) exactly once for
\* every item without the removed flag whose offset changes, with new_offset <
\* old_offset, while the item's bytes are still at old_offset, in increasing
\* order of old_offset, and for no other item.
C11_CallbackPerShift ==
    [][(call'.op = "purge_removed")
        => /\ ret' = Shifts(buffer)
           /\ \A i \in 1..Len(ret') : ret'[i].new < ret'[i].old
           /\ \A i \in 1..Len(ret') : \A j \in 1..Len(ret') :
                i < j => ret'[i].old < ret'[j].old]_vars

\* The items of a sequence of items that do not carry the removed flag.
Kept(items) == SelectSeq(items, LAMBDA item : item[1][3] % 2 = 0)

\* C12: after purge_removed the committed items are the previously committed
\* items without the removed flag, in their order and with their contents,
\* committed and written are the sum of their padded sizes, and capacity is
\* unchanged.
C12_PurgeKeepsSurvivors ==
    [][(call'.op = "purge_removed")
        => /\ Items(buffer') = Kept(Items(buffer))
           /\ buffer'.m_committed = Size(Concat(Kept(Items(buffer))))
           /\ buffer'.m_written = buffer'.m_committed
           /\ buffer'.m_capacity = buffer.m_capacity]_vars

\* C13, as stated: a Buffer is false in a boolean context exactly when its
\* capacity is 0.
C13_FalseIffZeroCapacity == (~Valid(buffer)) <=> (buffer.m_capacity = 0)

\* C13, amended: a Buffer is false exactly when it has no data pointer.  The
\* default-constructed Buffer is false; a false Buffer has capacity, written
\* and committed 0; a Buffer with capacity > 0 is true; and a Buffer
\* constructed over caller-owned memory is true whatever its capacity.
C13_FalseIffNoData ==
    /\ Fresh => ~Valid(buffer)
    /\ ~Valid(buffer)
         => /\ buffer.m_capacity = 0
            /\ buffer.m_written = 0
            /\ buffer.m_committed = 0
    /\ buffer.m_capacity > 0 => Valid(buffer)
    /\ (call.op \in {"Buffer2", "Buffer3"} /\ err = "none") => Valid(buffer)

\* Buffer(data, 0): a true Buffer of capacity 0.
C13_Witness ==
    /\ call.op = "Buffer2" /\ err = "none"
    /\ buffer.m_capacity = 0 /\ Valid(buffer)

\* C14: no operation changes the capacity of a Buffer over caller-owned
\* memory, and grow(size) on it throws and leaves the Buffer as it was.
C14_ExternalNeverGrows ==
    [][(buffer.m_data = "external")
        => /\ buffer'.m_capacity = buffer.m_capacity
           /\ buffer'.m_data = "external"
           /\ (call'.op = "grow") => (err' = "logic_error" /\ buffer' = buffer)]_vars

\* grow to more than the capacity refused on a Buffer over caller-owned memory
\* that holds data.
C14_Witness ==
    /\ call.op = "grow" /\ err = "logic_error"
    /\ buffer.m_data = "external"
    /\ buffer.m_capacity > 0 /\ call.arg > buffer.m_capacity
    /\ buffer.m_written > buffer.m_committed

\* C15: reserve_space(n) invokes the full-callback at most once, and only when
\* one is registered and written + n > capacity held on entry; when the space
\* is still short after the callback returned, the call grows the buffer (an
\* internal one with auto-grow) or throws buffer_is_full; a span it returns
\* ends at or before capacity.
C15_FullCallbackOnce ==
    [][(call'.op = "reserve_space")
        => /\ call'.fired \in {"none"} \cup FullActs
           /\ (call'.fired # "none")
                => (buffer.m_full /\ buffer.m_written + call'.arg > buffer.m_capacity)
           /\ (err' = "logic_error")
                => (call'.fired = "grow" /\ buffer.m_memory = <<>>)
           /\ (err' # "logic_error")
                => LET b == AtGrowth(buffer, call'.fired) IN
                   /\ err' \in {"none", "buffer_is_full"}
                   /\ (b.m_written + call'.arg > b.m_capacity)
                        => \/ err' = "buffer_is_full"
                           \/ /\ b.m_data = "m_memory" /\ b.m_auto_grow
                              /\ buffer'.m_capacity > b.m_capacity
                   /\ (b.m_written + call'.arg <= b.m_capacity)
                        => (err' = "none" /\ buffer'.m_capacity = b.m_capacity)
           /\ (err' = "none")
                => /\ ret' + call'.arg <= buffer'.m_capacity
                   /\ buffer'.m_written = ret' + call'.arg]_vars

\* A reserve_space whose full-callback cleared the buffer and which then still
\* had to grow it.
C15_Witness ==
    /\ call.op = "reserve_space" /\ call.fired = "clear" /\ err = "none"
    /\ Grew /\ ret = 0 /\ buffer.m_written = call.arg

\* C16: the consumer receives the futures in the order they were pushed, each
\* once, with what its promise was given, whatever the order in which the
\* promises are fulfilled; the invalid Buffer is the last one pushed, so it is
\* received after all data Buffers.
C16_ReadsInPushOrder ==
    /\ \A k \in 1..Len(received) :
         /\ received[k].fut = k
         /\ received[k].what = promises[k]
         /\ received[k].what = "invalid" => k = Len(promises)
    /\ m_output_queue =
         [k \in 1..Len(m_output_queue) |->
            Len(received) + (IF reader.pc = "get" THEN 1 ELSE 0) + k]
    /\ reader.pc = "get" => reader.fut = Len(received) + 1

\* A read() has returned the Buffer of the second future, which became ready
\* only after the third, and the third is still in the queue.
C16_Witness ==
    /\ reader.pc = "idle" /\ reader.overtaken
    /\ Len(received) = 2
    /\ received[1].what = "buffer" /\ received[2].what = "buffer"
    /\ CanPop(m_output_queue) /\ Head(m_output_queue) = 3 /\ 3 \in Ready

\* Where the futures are: in the queue, with the consumer, or received.
InQueue == {m_output_queue[k] : k \in 1..Len(m_output_queue)}
Held == IF reader.pc = "get" THEN {reader.fut} ELSE {}
Received == {received[k].fut : k \in 1..Len(received)}

\* C17: a future that carries an exception is never dropped (it is in the
\* queue, with the consumer, or received); the read() that pops it is the one
\* that throws; every read() before it returned the Buffer of an earlier
\* future, and no read() that popped another future throws its exception.
C17_ExceptionAtItsRead ==
    /\ InQueue \cup Held \cup Received = 1..Len(promises)
    /\ \A k \in 1..Len(received) :
         /\ (promises[received[k].fut] = "exception")
              => /\ received[k].what = "exception"
                 /\ received[k].fut = k
                 /\ \A j \in 1..(k - 1) :
                      received[j].fut = j /\ received[j].what = promises[j]
         /\ (received[k].what = "exception")
              => promises[received[k].fut] = "exception"

\* An exception thrown by a worker task, raised by the third read() after two
\* Buffers.
C17_Witness ==
    /\ Len(received) = 3
    /\ received[1].what = "buffer" /\ received[2].what = "buffer"
    /\ received[3].what = "exception" /\ m_thread.failed = 0

\* TRUE when the read() that raised the framing thread's exception has
\* returned.
RaisedFailure == m_thread.failed # 0 /\ Len(received) >= m_thread.failed

\* TRUE when the consumer is in wait_and_pop and nothing will ever be pushed.
BlockedForever ==
    /\ reader.pc = "wait_and_pop"
    /\ ~CanPop(m_output_queue)
    /\ m_thread.pc = "done"

C19_CloseReturns ==
    (reader.pc = "join") ~> (reader.pc = "closed" /\ m_thread.pc = "done")

\* C20: the queue never holds more than max_queue_size futures; a push
\* completes only when it finds fewer, a pop only when it finds one.
C20_QueueBounded ==
    [][/\ Len(m_output_queue) <= max_queue_size
       /\ Len(m_output_queue') <= max_queue_size
       /\ Len(m_output_queue') > Len(m_output_queue)
            => /\ Len(m_output_queue) < max_queue_size
               /\ Len(m_output_queue') = Len(m_output_queue) + 1
       /\ Len(m_output_queue') < Len(m_output_queue)
            => /\ m_output_queue # <<>>
               /\ m_output_queue' = Tail(m_output_queue)]_vars

\* The queue is full while the framing thread has more to push, after the
\* consumer has read some Buffers.
C20_Witness ==
    /\ Len(m_output_queue) = max_queue_size
    /\ m_thread.pc = "run"
    /\ Len(received) > 0

\* The primitive blocks a PBFOutputFormat has pushed, in the order of the
\* pushes: the messages SerializeBlob was given for the OSMData blobs.
DataBlocks ==
    IF output.format = "pbf"
    THEN LET blobs == SelectSeq(output.m_output_queue,
                                LAMBDA s : s /= <<>> /\ s[1].type = "OSMData")
         IN [i \in 1..Len(blobs) |-> blobs[i][2].raw]
    ELSE <<>>

\* The group kind of a message of a primitive group.
GroupOf(msg) == IF msg.kind = "dense" THEN "dense" ELSE msg.kind \o "s"

\* C21: every primitive block pushed holds entities of one group kind only,
\* the kind the block was reset to, and so does the block being filled: an
\* entity of another kind has the block stored and reset before it is added.
C21_OneKindPerBlock ==
    /\ \A i \in 1..Len(DataBlocks) :
          \A j \in 1..Len(DataBlocks[i].primitivegroup) :
              GroupOf(DataBlocks[i].primitivegroup[j]) = DataBlocks[i].type
    /\ output.format = "pbf" /\ output.phase = "open" =>
          LET pb == output.m_primitive_block
          IN /\ \A j \in 1..Len(pb.m_pbf_primitive_group_data) :
                   GroupOf(pb.m_pbf_primitive_group_data[j]) = pb.m_type
             /\ pb.m_dense_nodes.m_ids /= <<>> => pb.m_type = "dense"

\* Two blocks of different kinds were pushed one after the other, and a
\* third kind is being collected.
C21_Witness ==
    /\ Len(DataBlocks) >= 2
    /\ DataBlocks[1].type /= DataBlocks[2].type
    /\ output.phase = "open"
    /\ output.m_primitive_block.m_count > 0
    /\ output.m_primitive_block.m_type \notin {DataBlocks[1].type, DataBlocks[2].type}

\* The entities of a primitive block: the nodes of its DenseNodes message,
\* or its messages.
EntitiesIn(block) ==
    LET RECURSIVE Count(_)
        Count(k) ==
            IF k = 0 THEN 0
            ELSE Count(k - 1)
                 + (IF block.primitivegroup[k].kind = "dense"
                    THEN Len(block.primitivegroup[k].id) ELSE 1)
    IN Count(Len(block.primitivegroup))

\* C22: every primitive block pushed to the output queue holds at least one
\* and at most max_entities_per_block entities.
C22_BlockCount ==
    \A i \in 1..Len(DataBlocks) :
        /\ EntitiesIn(DataBlocks[i]) >= 1
        /\ EntitiesIn(DataBlocks[i]) <= max_entities_per_block

\* A block was pushed because it was full by count, not by size or by a
\* change of kind, and close() has pushed the rest.
C22_Witness ==
    /\ output.format = "pbf"
    /\ output.phase = "closed"
    /\ Len(DataBlocks) = 2
    /\ EntitiesIn(DataBlocks[1]) = max_entities_per_block
    /\ DataBlocks[2].type = DataBlocks[1].type
    /\ output.stored[1].size < max_used_blob_size

\* C23, as stated: no entity is added to a block when that takes the size of
\* the block over max_used_blob_size, so the size of every block pushed, and
\* of the block being filled, is at most max_used_blob_size.
C23_FlushedWithinLimit ==
    output.format = "pbf" =>
        /\ \A i \in 1..Len(output.stored) :
              output.stored[i].size <= max_used_blob_size
        /\ PrimitiveBlock_size(output.m_primitive_block) <= max_used_blob_size

\* C23, amended: an entity is added only to a block whose size before the
\* entity is below max_used_blob_size; the entity itself may take the block
\* over the limit.
C23_AdmittedBelowLimit ==
    output.format = "pbf" =>
        /\ \A i \in 1..Len(output.stored) :
              output.stored[i].admitted < max_used_blob_size
        /\ output.admitted < max_used_blob_size

\* A block that was over the limit was pushed with fewer entities than
\* max_entities_per_block because the next entity, of the same kind, was
\* refused for its size.
C23_Witness ==
    /\ output.format = "pbf"
    /\ \E i \in 1..(Len(output.stored) - 1) :
          /\ output.stored[i].size > max_used_blob_size
          /\ output.stored[i].count < max_entities_per_block
          /\ output.stored[i + 1].type = output.stored[i].type

\* What a reader of delta-encoded values computes: the running sums.
PrefixSums(deltas) ==
    LET RECURSIVE Sum(_)
        Sum(k) == IF k = 0 THEN 0 ELSE Sum(k - 1) + deltas[k]
    IN [i \in 1..Len(deltas) |-> Sum(i)]

\* The kind and id of the entities of a primitive group, in order.
EntityIds(primitivegroup) ==
    Concat([k \in 1..Len(primitivegroup) |->
               LET msg == primitivegroup[k]
               IN IF msg.kind = "dense"
                  THEN [i \in 1..Len(msg.id) |-> <<"node", PrefixSums(msg.id)[i]>>]
                  ELSE << <<msg.kind, msg.id>> >>])

\* The kind and id of the objects handed to write_buffer so far, in order.
WrittenIds ==
    LET objects == Concat(written)
    IN [i \in 1..Len(objects) |-> <<objects[i].type, objects[i].id>>]

\* The entities of the blocks pushed so far, in the order of the pushes.
PushedIds ==
    Concat([i \in 1..Len(DataBlocks) |-> EntityIds(DataBlocks[i].primitivegroup)])

\* C24: after close() the data blocks pushed hold, in the order of the
\* pushes, every node, way and relation written, once and in the order
\* written; before close() they hold the ones written so far except those
\* of the block being filled, which come last.
C24_AllWrittenInOrder ==
    output.format = "pbf" =>
        /\ output.phase = "closed" => PushedIds = WrittenIds
        /\ output.phase = "open" =>
              PushedIds \o EntityIds(group_data(output.m_primitive_block,
                                                 output.m_options))
                  = WrittenIds

\* close() has pushed the last of several blocks, one of them of two dense
\* nodes, for MaxObjects objects written in more than one Buffer.
C24_Witness ==
    /\ output.format = "pbf"
    /\ output.phase = "closed"
    /\ Len(WrittenIds) = MaxObjects
    /\ Len(written) > 1
    /\ Len(DataBlocks) >= 2
    /\ \E i \in 1..Len(DataBlocks) :
          DataBlocks[i].type = "dense" /\ EntitiesIn(DataBlocks[i]) = 2

\* C25: of the strings pushed to the output queue by write_header, by the
\* write_buffer calls and by close(), only the last one pushed by close() is
\* the empty string.
C25_EmptyStringOnlyLast ==
    LET queue == output.m_output_queue
    IN /\ \A i \in 1..Len(queue) :
             queue[i] = <<>> => output.phase = "closed" /\ i = Len(queue)
       /\ output.phase = "closed" => queue[Len(queue)] = <<>>

\* The same for the strings of a PBFOutputFormat alone.
C25_EmptyStringOnlyLastPBF == output.format = "pbf" => C25_EmptyStringOnlyLast

\* The objects of the i-th block pushed: of the objects written, in order,
\* the ones after those of the blocks pushed before it.
BlockObjects(i) ==
    LET RECURSIVE Before(_)
        Before(k) == IF k = 0 THEN 0 ELSE Before(k - 1) + output.stored[k].count
    IN SubSeq(Concat(written), Before(i - 1) + 1, Before(i))

\* C26: in every DenseNodes block pushed, the running sums of the id, lat
\* and lon arrays, and with metadata of the timestamp, changeset, uid and
\* user_sid arrays, are the values of the nodes of the block, in order: the
\* first entry of each array is the value of the first node of that block.
C26_DensePrefixSums ==
    \A i \in 1..Len(DataBlocks) :
        DataBlocks[i].type = "dense" =>
            LET dense == DataBlocks[i].primitivegroup[1]
                table == DataBlocks[i].stringtable
                nodes == BlockObjects(i)
                info  == dense.denseinfo
                Are(deltas, Value(_)) ==
                    PrefixSums(deltas) = [k \in 1..Len(nodes) |-> Value(nodes[k])]
            IN /\ Len(DataBlocks[i].primitivegroup) = 1
               /\ Are(dense.id, LAMBDA n : n.id)
               /\ Are(dense.lat, LAMBDA n : n.y)
               /\ Are(dense.lon, LAMBDA n : n.x)
               /\ output.m_options.add_metadata =>
                     /\ Are(info.timestamp, LAMBDA n : n.timestamp)
                     /\ Are(info.changeset, LAMBDA n : n.changeset)
                     /\ Are(info.uid, LAMBDA n : n.uid)
                     /\ Len(info.user_sid) = Len(nodes)
                     /\ \A k \in 1..Len(nodes) :
                           /\ PrefixSums(info.user_sid)[k] \in 1..Len(table)
                           /\ table[PrefixSums(info.user_sid)[k]] = nodes[k].user

\* Two DenseNodes blocks with metadata were pushed, the first with a node
\* whose id is below that of the node before it, the second starting with a
\* node that differs from the last node of the first.
C26_Witness ==
    /\ Len(DataBlocks) >= 2
    /\ DataBlocks[1].type = "dense"
    /\ DataBlocks[2].type = "dense"
    /\ output.m_options.add_metadata
    /\ Len(DataBlocks[1].primitivegroup[1].id) = 2
    /\ DataBlocks[1].primitivegroup[1].id[2] < 0
    /\ BlockObjects(2)[1] /= BlockObjects(1)[2]

\* The groups of a keys_vals array: the entries before each 0, in order.
RECURSIVE GroupsOf(_)
GroupsOf(keys_vals) ==
    IF \A j \in 1..Len(keys_vals) : keys_vals[j] /= 0 THEN <<>>
    ELSE LET zero == CHOOSE j \in 1..Len(keys_vals) :
                         /\ keys_vals[j] = 0
                         /\ \A l \in 1..(j - 1) : keys_vals[l] /= 0
         IN <<SubSeq(keys_vals, 1, zero - 1)>>
            \o GroupsOf(SubSeq(keys_vals, zero + 1, Len(keys_vals)))

\* C27: in every DenseNodes block pushed, keys_vals ends with a 0 and has
\* one group per node, in the order of the nodes; the group of a node is the
\* string table ids (all of them at least 1) of its keys and values, each
\* key followed by its value, in the order of the tags.
C27_KeysValsGroups ==
    \A i \in 1..Len(DataBlocks) :
        DataBlocks[i].type = "dense" =>
            LET keys_vals == DataBlocks[i].primitivegroup[1].keys_vals
                table == DataBlocks[i].stringtable
                nodes == BlockObjects(i)
                groups == GroupsOf(keys_vals)
            IN /\ keys_vals[Len(keys_vals)] = 0
               /\ Len(groups) = Len(nodes)
               /\ \A k \in 1..Len(nodes) :
                     /\ \A j \in 1..Len(groups[k]) :
                           groups[k][j] \in 1..Len(table)
                     /\ Len(groups[k]) = 2 * Len(nodes[k].tags)
                     /\ \A t \in 1..Len(nodes[k].tags) :
                           /\ table[groups[k][2 * t - 1]] = nodes[k].tags[t][1]
                           /\ table[groups[k][2 * t]] = nodes[k].tags[t][2]

\* A DenseNodes block of a node with two tags, one of them with the empty
\* string as its value, and a node without tags.
C27_Witness ==
    \E i \in 1..Len(DataBlocks) :
        /\ DataBlocks[i].type = "dense"
        /\ Len(BlockObjects(i)) = 2
        /\ Len(BlockObjects(i)[1].tags) = 2
        /\ BlockObjects(i)[1].tags[2][2] = ""
        /\ BlockObjects(i)[2].tags = <<>>

\* The strings an XMLOutputFormat has pushed for the Buffers written, in
\* order: they follow the string of the header.
XMLBlocks ==
    IF output.format = "xml"
    THEN [i \in 1..Len(written) |-> output.m_output_queue[i + 1]]
    ELSE <<>>

\* The positions in a string of the start tags of nodes, ways and relations,
\* in order.
ObjectStarts(str) ==
    LET at == {p \in 1..Len(str) :
                  str[p].tok = "start" /\ str[p].name \in {"node", "way", "relation"}}
        RECURSIVE Sorted(_)
        Sorted(ps) ==
            IF ps = {} THEN <<>>
            ELSE LET least == CHOOSE p \in ps : \A q \in ps : p <= q
                 IN <<least>> \o Sorted(ps \ {least})
    IN Sorted(at)

\* The operation tag open at a position of a string, or "none".
OpenAt(str, p) ==
    LET ops == {j \in 1..(p - 1) : str[j].tok \in {"open", "close"}}
        last == CHOOSE j \in ops : \A l \in ops : l <= j
    IN IF ops = {} THEN "none"
       ELSE IF str[last].tok = "open" THEN str[last].name ELSE "none"

\* C28: in osmChange output every node, way and relation stands inside the
\* operation tag "delete" if it is not visible, else "create" if its version
\* is 1, else "modify".
C28_OperationOfObject ==
    output.m_file.xml_change_format =>
        \A i \in 1..Len(XMLBlocks) :
            LET starts == ObjectStarts(XMLBlocks[i])
            IN /\ Len(starts) = Len(written[i])
               /\ \A k \in 1..Len(starts) :
                     OpenAt(XMLBlocks[i], starts[k]) =
                         IF ~written[i][k].visible THEN "delete"
                         ELSE IF written[i][k].version = 1 THEN "create"
                         ELSE "modify"

\* An osmChange string for a Buffer with a visible object of version 1, a
\* visible object of a later version and an invisible object of version 1.
C28_Witness ==
    /\ output.m_file.xml_change_format
    /\ \E i \in 1..Len(XMLBlocks) :
          /\ Len(written[i]) = 3
          /\ \E k \in 1..3 : written[i][k].visible /\ written[i][k].version = 1
          /\ \E k \in 1..3 : written[i][k].visible /\ written[i][k].version > 1
          /\ \E k \in 1..3 : ~written[i][k].visible /\ written[i][k].version = 1

\* The operation tags of a string, opening and closing, in order.
OpTags(str) == SelectSeq(str, LAMBDA t : t.tok \in {"open", "close"})

\* C29: in every string of an osmChange file written for a Buffer the
\* operation tags come in pairs, an opening tag followed by the closing tag
\* of the same operation with no operation tag between them; an opening tag
\* that is not the first operation tag comes right after the closing tag of
\* another operation; and two objects one after the other with the same
\* operation have no operation tag between them.
C29_OpTagsBalanced ==
    output.m_file.xml_change_format =>
        \A i \in 1..Len(XMLBlocks) :
            LET str == XMLBlocks[i]
                ops == OpTags(str)
                starts == ObjectStarts(str)
            IN /\ Len(ops) % 2 = 0
               /\ \A j \in 1..Len(ops) :
                     IF j % 2 = 1
                     THEN /\ ops[j].tok = "open"
                          /\ j > 1 => ops[j].name /= ops[j - 1].name
                     ELSE /\ ops[j].tok = "close"
                          /\ ops[j].name = ops[j - 1].name
               /\ \A p \in 2..Len(str) :
                     str[p].tok = "open" /\ OpTags(SubSeq(str, 1, p - 1)) /= <<>>
                         => str[p - 1].tok = "close"
               /\ \A k \in 1..(Len(starts) - 1) :
                     OpenAt(str, starts[k]) = OpenAt(str, starts[k + 1])
                         => OpTags(SubSeq(str, starts[k], starts[k + 1])) = <<>>
               /\ \A k \in 1..Len(starts) : OpenAt(str, starts[k]) /= "none"

\* A string with two objects inside one operation tag and a third object
\* inside another.
C29_Witness ==
    /\ output.m_file.xml_change_format
    /\ \E i \in 1..Len(XMLBlocks) :
          LET str == XMLBlocks[i]
              starts == ObjectStarts(str)
          IN /\ Len(starts) = 3
             /\ Len(OpTags(str)) = 4
             /\ OpenAt(str, starts[1]) = OpenAt(str, starts[2])
             /\ OpenAt(str, starts[2]) /= OpenAt(str, starts[3])

\* The values of the visible attributes of the start tag at a position of a
\* string.
VisibleAttrs(str, p) ==
    {str[j].value : j \in {l \in (p + 1)..Len(str) :
                              /\ str[l].tok = "attr"
                              /\ str[l].name = "visible"
                              /\ \A m \in (p + 1)..l : str[m].tok = "attr"}}

\* What the visible attribute of an object says.
VisibleValue(object) == IF object.visible THEN "true" ELSE "false"

\* C30, as stated: for a File with force_visible_flag every node, way and
\* relation written has the attribute visible, with the value of its visible
\* flag, whatever add_metadata and xml_change_format are.
C30_ForcedVisibleAlways ==
    output.m_file.force_visible_flag =>
        \A i \in 1..Len(XMLBlocks) :
            \A k \in 1..Len(written[i]) :
                VisibleAttrs(XMLBlocks[i], ObjectStarts(XMLBlocks[i])[k])
                    = {VisibleValue(written[i][k])}

\* C30, amended: every node, way and relation written has the attribute
\* visible, with the value of its visible flag, if the File has
\* force_visible_flag or multiple object versions, metadata is written and
\* the format is not osmChange; otherwise none has it.
C30_VisibleWithMetadata ==
    \A i \in 1..Len(XMLBlocks) :
        \A k \in 1..Len(written[i]) :
            VisibleAttrs(XMLBlocks[i], ObjectStarts(XMLBlocks[i])[k])
                = IF /\ output.m_file.force_visible_flag
                        \/ output.m_file.has_multiple_object_versions
                     /\ output.m_file.add_metadata
                     /\ ~output.m_file.xml_change_format
                  THEN {VisibleValue(written[i][k])}
                  ELSE {}

\* A File without multiple object versions, with force_visible_flag and
\* metadata, not osmChange: a Buffer with a visible and an invisible object
\* has been written.
C30_Witness ==
    /\ output.format = "xml"
    /\ output.m_file.force_visible_flag
    /\ ~output.m_file.has_multiple_object_versions
    /\ output.m_file.add_metadata
    /\ ~output.m_file.xml_change_format
    /\ \E i \in 1..Len(XMLBlocks) :
          /\ \E k \in 1..Len(written[i]) : written[i][k].visible
          /\ \E k \in 1..Len(written[i]) : ~written[i][k].visible

\* ---------------------------------------------------------------- C31
\* What the last call of xml_string appended to the output string.
Appended == SubSeq(xml.out, Len(xml.before) + 1, Len(xml.out))

\* The entity of each of the eight characters, as the XML format names them.
EntityOf(c) ==
    CASE c = "&"  -> <<"&", "a", "m", "p", ";">>
      [] c = "<"  -> <<"&", "l", "t", ";">>
      [] c = ">"  -> <<"&", "g", "t", ";">>
      [] c = "\"" -> <<"&", "q", "u", "o", "t", ";">>
      [] c = "'"  -> <<"&", "a", "p", "o", "s", ";">>
      [] c = "\t" -> <<"&", "#", "x", "9", ";">>
      [] c = "\n" -> <<"&", "#", "x", "A", ";">>
      [] c = "\r" -> <<"&", "#", "x", "D", ";">>

\* TRUE when the entity of some character starts at position p of str.
EntityAt(str, p) ==
    \E c \in SpecialChars :
        /\ p + Len(EntityOf(c)) - 1 <= Len(str)
        /\ SubSeq(str, p, p + Len(EntityOf(c)) - 1) = EntityOf(c)

\* The string an XML parser reads from an attribute value: every entity is
\* the character it stands for, every other character is itself.
Unescape(str) ==
    LET RECURSIVE Scan(_)
        Scan(p) ==
            IF p > Len(str) THEN <<>>
            ELSE IF str[p] = "&" /\ EntityAt(str, p)
                 THEN LET c == CHOOSE d \in SpecialChars :
                                 /\ p + Len(EntityOf(d)) - 1 <= Len(str)
                                 /\ SubSeq(str, p, p + Len(EntityOf(d)) - 1)
                                      = EntityOf(d)
                      IN <<c>> \o Scan(p + Len(EntityOf(c)))
                 ELSE <<str[p]>> \o Scan(p + 1)
    IN Scan(1)

\* C31: xml_string appends to the output string, leaving what was there; what
\* it appends is, character by character of the input and in order, the
\* entity of each of & " ' < > newline, carriage return and tab and every
\* other character itself; none of the eight characters is in it except the
\* & that starts an entity; and unescaping it yields the input.
C31_XmlStringEscapes ==
    /\ SubSeq(xml.out, 1, Len(xml.before)) = xml.before
    /\ Appended = Concat([k \in 1..Len(xml.in) |->
                            IF xml.in[k] \in SpecialChars
                            THEN EntityOf(xml.in[k]) ELSE <<xml.in[k]>>])
    /\ \A p \in 1..Len(Appended) :
         /\ Appended[p] \notin SpecialChars \ {"&"}
         /\ Appended[p] = "&" => EntityAt(Appended, p)
    /\ Unescape(Appended) = xml.in

\* xml_string was called on an ampersand followed by a semicolon, after the
\* output string had received an "a".
C31_Witness ==
    /\ xml.before = <<"a">>
    /\ xml.in = <<"&", ";">>
    /\ xml.out = <<"a", "&", "a", "m", "p", ";", ";">>


\* ---------------------------------------------------------------- C32
\* The nodes, ways and relations a string lists, in order: the name of each
\* start tag and the id that follows it.
ListedObjects(str) ==
    LET starts == ObjectStarts(str)
    IN [j \in 1..Len(starts) |->
           <<str[starts[j]].name, str[starts[j] + 1].value>>]

\* The objects of a Buffer in buffer order, as a string lists them.
ObjectsOf(items) ==
    [j \in 1..Len(items) |-> <<items[j].type, ToString(items[j].id)>>]

\* C32: after write_header, write_buffer(b1) .. write_buffer(bk) and close,
\* the output queue of an XMLOutputFormat holds the header string, one future
\* per Buffer in write order, the closing root tag and the empty string, in
\* that order, whichever futures the pool has made ready; before close it
\* holds the part of that written so far. The string of each Buffer lists
\* the Buffer's objects in buffer order, and the closing tag names the root
\* element the header opened.
C32_XMLQueueOrder ==
    output.format = "xml" =>
      LET q == output.m_output_queue
          n == Len(written)
      IN /\ resolved \subseteq 1..Len(q)
         /\ output.phase = "new" => q = <<>>
         /\ output.phase \in {"open", "closed"} =>
              /\ Len(q) = n + (IF output.phase = "closed" THEN 3 ELSE 1)
              /\ q[1][1].tok = "xml"
              /\ q[1][2].tok = "start"
              /\ q[1][2].name \in {"osm", "osmChange"}
              /\ \A k \in 1..n :
                   ListedObjects(q[k + 1]) = ObjectsOf(written[k])
         /\ output.phase = "closed" =>
              /\ q[n + 2] = <<Token("end", q[1][2].name, "")>>
              /\ q[n + 3] = <<>>

\* An osmChange file is closed after two Buffers; the pool has finished the
\* second Buffer's task and not the first's.
C32_Witness ==
    /\ output.format = "xml"
    /\ output.phase = "closed"
    /\ output.m_file.xml_change_format
    /\ written = << <<Road, Peak>>, <<Cairn>> >>
    /\ resolved = {1, 3, 4, 5}
    /\ output.m_output_queue[4] = <<Token("end", "osmChange", "")>>


C35_BlobAssertionHolds ==
    \A i \in 1..Len(DataBlocks) : SerializeBlob_assertion(DataBlocks[i])


\* ---------------------------------------------------------------- C36
\* TRUE when the Buffer moved from and the Buffer moved to point to the same
\* memory.
SameMemory ==
    \/ moved.m_data = "moved_m_memory" /\ buffer.m_data = "m_memory"
    \/ moved.m_data = "external" /\ buffer.m_data = "external"

\* C36: after a Buffer is moved from, it is invalid: it tests false and its
\* capacity, written and committed are 0; so the Buffer moved from and the
\* Buffer moved to never both test true while they point to the same memory.
C36_MovedFromInvalid ==
    call.op = "move" =>
        /\ ~Valid(moved)
        /\ moved.m_capacity = 0 /\ moved.m_written = 0 /\ moved.m_committed = 0
        /\ ~(Valid(moved) /\ Valid(buffer) /\ SameMemory)


\* ---------------------------------------------------------------- C37
\* C37: once the header promise has been fulfilled, header() can be called
\* any number of times: every call returns the same Header, the one of the
\* file, and no call fails.
C37_HeaderRepeatable ==
    hdr.m_header_promise # "pending" =>
        \A k \in 1..Len(hdr.returned) : hdr.returned[k] = hdr.m_header_promise


\* ---------------------------------------------------------------- C38
\* The sum of the committed sizes of the first k area Buffers of the last
\* read().
RECURSIVE AreaCommitted(_)
AreaCommitted(k) ==
    IF k = 0 THEN 0
    ELSE AreaCommitted(k - 1) + flex.area_buffers[k].m_committed

\* C38: when the Reader returns the invalid Buffer, FlexReader::read()
\* returns it unchanged and applies no handler; for a valid Buffer with areas
\* requested, the returned Buffer holds the Reader's committed data followed
\* by the committed data of every area Buffer in the order they were
\* produced, its committed size is the original committed size plus the sum
\* of the area Buffers' committed sizes, and written = committed.
C38_FlexReadAppendsAreas ==
    flex.reads > 0 =>
        /\ ~Valid(flex.from_reader) =>
              flex.ret = flex.from_reader /\ flex.applied = <<>>
        /\ (Valid(flex.from_reader) /\ flex.m_with_areas) =>
              /\ flex.err = "none"
              /\ flex.ret.m_committed =
                    flex.from_reader.m_committed
                    + AreaCommitted(Len(flex.area_buffers))
              /\ flex.ret.m_written = flex.ret.m_committed
              /\ Bytes(Data(flex.ret), 0, flex.from_reader.m_committed)
                    = Bytes(Data(flex.from_reader), 0,
                            flex.from_reader.m_committed)
              /\ \A k \in 1..Len(flex.area_buffers) :
                    Bytes(Data(flex.ret),
                          flex.from_reader.m_committed + AreaCommitted(k - 1),
                          flex.area_buffers[k].m_committed)
                    = Bytes(Data(flex.area_buffers[k]), 0,
                            flex.area_buffers[k].m_committed)

\* A read() with areas requested appended two different area Buffers, one of
\* them with uncommitted data, and the Buffer had to grow.
C38_Witness ==
    /\ flex.reads > 0 /\ flex.m_with_areas /\ Valid(flex.from_reader)
    /\ Len(flex.area_buffers) = 2
    /\ flex.area_buffers[1].m_written > flex.area_buffers[1].m_committed
    /\ flex.area_buffers[2].m_written = flex.area_buffers[2].m_committed
    /\ flex.ret.m_capacity > flex.from_reader.m_capacity
    /\ flex.ret.m_committed = flex.from_reader.m_committed + 24


\* ---------------------------------------------------------------- C39
\* The size of the k-th member of the list as it was built.
MemberSize(k) ==
    sizeof_RelationMember + sizeof_size_t + padded_length(rml.list[k].role)
    + (IF rml.list[k].full THEN rml.list[k].object[1][1] ELSE 0)

\* The offset of the k-th member of the list as it was built.
RECURSIVE MemberStart(_)
MemberStart(k) ==
    IF k = 1 THEN 0 ELSE MemberStart(k - 1) + MemberSize(k - 1)

\* C39: next() of every member lies at an offset from the member's start that
\* is a multiple of the alignment: sizeof(RelationMember) + sizeof(size_t) +
\* padded_length(role length), plus the size of the embedded Item for a full
\* member; so a walk with next() visits every member exactly once, in order,
\* and stops exactly at the end of the list.
C39_NextAligned ==
    rml.built =>
        /\ rml.pos % align_bytes = 0
        /\ rml.pos <= Size(rml.mem)
        /\ Len(rml.visited) <= Len(rml.list)
        /\ \A k \in 1..Len(rml.visited) :
              /\ rml.visited[k] = MemberStart(k)
              /\ (IF k < Len(rml.visited) THEN rml.visited[k + 1] ELSE rml.pos)
                    = rml.visited[k] + MemberSize(k)
        /\ rml.pos = Size(rml.mem) => Len(rml.visited) = Len(rml.list)

\* A walk reached the end of a list of a full member whose role length is no
\* multiple of the alignment followed by a plain member.
C39_Witness ==
    /\ rml.built /\ Len(rml.list) = 2
    /\ rml.list[1].full /\ rml.list[1].role = 5 /\ rml.list[1].object = RelationItem
    /\ ~rml.list[2].full /\ rml.list[2].role = 9
    /\ rml.pos = Size(rml.mem) /\ rml.visited = <<0, 48>>

====
